---- MODULE Spec2Model ----
(***************************************************************************)
(* Tile cache, basemap assembly, tile-grid derivation, activity            *)
(* clustering, path smoothing and rendering of strava_wrapped              *)
(* (src/src/lib/map_generator.py, src/src/clustering_utils.py,             *)
(* src/src/lib/wrap_generator.py, src/src/cli.py, src/map_generator.py).   *)
(*                                                                         *)
(* Specifications:                                                         *)
(*   Spec       one basemap assembly call over a disk cache whose          *)
(*              directory operations succeed; the network may fail.        *)
(*   SpecFault  the same call when unlink, save and mkdir may fail too.    *)
(*   SpecCorrupt  the same call over a cache with a damaged entry.         *)
(*   SpecReads  get and put calls on one cache entry while time passes.    *)
(*   SpecConc   two processes running get and put on one cache file.       *)
(*   SpecGrid   the tile grid and the extent derived from a request.       *)
(*   SpecCluster  one call of find_areas_of_interest.                      *)
(*   SpecSmooth   one call of smooth_path.                                 *)
(*   SpecRender   one render request, from its arguments to the image.     *)
(*   SpecZoom     the automatic zoom of two bounding boxes.                *)
(***************************************************************************)
EXTENDS Integers, Sequences, FiniteSets, TLC

VARIABLES
    now,            \* time.time(), in seconds
    cache,          \* the tile cache directory: key -> entry or NoEntry
    pc,             \* position of the assembly call
    use_mapbox,     \* bool(MAPBOX_ACCESS_TOKEN)
    grid,           \* the tile grid of the call
    pidx,           \* index of the provider of the current pass
    cur,            \* <<x, y>> of the tile being processed
    sub,            \* index of the sub-domain tried next for cur
    map_img,        \* the stitched canvas
    tiles_downloaded,
    tiles_from_cache,
    provider_used,
    error,          \* the exception that left the call, or "none"
    lastGet,        \* record of the most recent TileCache.get
    log,            \* what the call did, per provider
    ticks,          \* how often the clock advanced
    cache0,         \* the cache as the call found it
    file,           \* the cache file two processes share
    procs,          \* the two processes: operation, position, result
    req,            \* the arguments of a tile-grid derivation
    bg,             \* what the derivation produced
    cl_in,          \* the arguments of find_areas_of_interest
    cl_out,         \* the clusters it returned
    sm_in,          \* the arguments of a smoothing call
    sm_out,         \* what the smoothing call returned
    rd_in,          \* the arguments of a render
    rd_out,         \* the position and the effects of the render
    zm_in,          \* two bounding boxes
    zm_out          \* the zoom levels chosen for them

vars == <<now, cache, pc, use_mapbox, grid, pidx, cur, sub, map_img,
          tiles_downloaded, tiles_from_cache, provider_used, error,
          lastGet, log, ticks, cache0, file, procs, req, bg, cl_in, cl_out,
                 sm_in, sm_out, rd_in, rd_out, zm_in, zm_out>>

\* the variables of the assembly call
asmVars == <<now, cache, pc, use_mapbox, grid, pidx, cur, sub, map_img,
             tiles_downloaded, tiles_from_cache, provider_used, error,
             lastGet, log, ticks, cache0>>
concVars == <<file, procs>>
gridVars == <<req, bg>>
clusterVars == <<cl_in, cl_out>>
smoothVars == <<sm_in, sm_out>>
renderVars == <<rd_in, rd_out>>
zoomVars == <<zm_in, zm_out>>

\* values of the variables a specification does not use
Unused == "unused"

-----------------------------------------------------------------------------
(* Bounds of the model *)

\* entries the cache may hold before the call starts
MaxCached == 1
\* clock advances during one behaviour
MaxTick == 1

-----------------------------------------------------------------------------
(* TileCache *)

CACHE_EXPIRY_SECONDS == 2592000

Mapbox == "Mapbox"
Carto == "CartoDB"

ProviderNames == {Mapbox, Carto}

NoEntry == [st |-> "absent"]

None == [kind |-> "None"]

\* a decoded tile of provider p at (zoom, x, y)
Tile(p, z, x, y) == [kind |-> "tile", provider |-> p, zoom |-> z, x |-> x, y |-> y]

\* the file a key is stored in: one file per (provider, zoom, x, y)
CachePath(p, z, x, y) == <<p, z, x, y>>

\* Image.open on the stored bytes: the raster, or "raise" when they do not decode
Raised == [kind |-> "raise"]

\* Image.open reads the header only: of a file whose header is whole and whose
\* data is cut short ("torn") it returns an image that fails when it is loaded
TornImage == [kind |-> "torn_image"]

ImageOpen(entry) ==
    IF entry.st = "valid" THEN entry.img
    ELSE IF entry.st = "torn" THEN TornImage
    ELSE Raised

\* an expiry test that also drops an entry exactly as old as the expiry
ExpiredAtLimit(entry, t) == t - entry.mtime >= CACHE_EXPIRY_SECONDS

\* "file_age > self.CACHE_EXPIRY_SECONDS"
Expired(entry, t) == t - entry.mtime > CACHE_EXPIRY_SECONDS

\* what the file system does during one cache operation: everything works, the
\* unlink fails, the save fails, or the provider/zoom directory cannot be made
FsOutcomes == {"ok", "unlink_fails", "save_fails", "mkdir_fails"}

\* "zoom_dir.mkdir(parents=True, exist_ok=True)" in _get_cache_path, which
\* get and put call outside their try blocks
MkdirRaises(fs) == fs = "mkdir_fails"

\* cache_path.unlink() inside try/except: the entry is removed unless the
\* deletion fails, and the failure is swallowed
Unlink(c, path, fs) == IF fs = "unlink_fails" THEN c ELSE [c EXCEPT ![path] = NoEntry]

\* a get that refreshes the entry it serves
TileCacheGetTouching(c, p, z, x, y, t, fs) ==
    LET path == CachePath(p, z, x, y)
        entry == c[path]
    IN  IF entry.st = "absent"
        THEN [raised |-> FALSE, ret |-> None, cache |-> c]
        ELSE IF Expired(entry, t) \/ ImageOpen(entry) = Raised
        THEN [raised |-> FALSE, ret |-> None, cache |-> Unlink(c, path, fs)]
        ELSE [raised |-> FALSE, ret |-> ImageOpen(entry),
              cache |-> [c EXCEPT ![path].mtime = t]]

\* TileCache.get: whether it raised, the value returned and the cache it leaves
TileCacheGet(c, p, z, x, y, t, fs) ==
    LET path == CachePath(p, z, x, y)
        entry == c[path]
    IN  IF MkdirRaises(fs)
        THEN [raised |-> TRUE, ret |-> None, cache |-> c]
        ELSE IF entry.st = "absent"
        THEN [raised |-> FALSE, ret |-> None, cache |-> c]
        ELSE IF Expired(entry, t)
        THEN [raised |-> FALSE, ret |-> None, cache |-> Unlink(c, path, fs)]
        ELSE IF ImageOpen(entry) = Raised
        THEN [raised |-> FALSE, ret |-> None, cache |-> Unlink(c, path, fs)]
        ELSE [raised |-> FALSE, ret |-> ImageOpen(entry), cache |-> c]

\* TileCache.put: whether it raised and the cache it leaves; a failed
\* image.save is swallowed
TileCachePut(c, p, z, x, y, image, t, fs) ==
    IF MkdirRaises(fs)
    THEN [raised |-> TRUE, cache |-> c]
    ELSE IF fs = "save_fails"
    THEN [raised |-> FALSE, cache |-> c]
    ELSE [raised |-> FALSE,
          cache |-> [c EXCEPT ![CachePath(p, z, x, y)] =
                        [st |-> "valid", img |-> image, mtime |-> t]]]

-----------------------------------------------------------------------------
(* Tile providers *)

\* tile_providers, as built from use_mapbox
TileProviders(mapbox) ==
    IF mapbox
    THEN << [name |-> Mapbox, subdomains |-> 1, tile_size |-> 1024],
            [name |-> Carto, subdomains |-> 4, tile_size |-> 512] >>
    ELSE << [name |-> Carto, subdomains |-> 4, tile_size |-> 512] >>

InitialTileSize(mapbox) == IF mapbox THEN 1024 ELSE 512

\* what one requests.get + Image.open can end in
RequestOutcomes == {"ok", "non200", "exception", "bad_image"}

-----------------------------------------------------------------------------
(* Tile grids the assembly loop is run on: at least two tiles on each axis,  *)
(* as the at-least-one-tile guard leaves them.                               *)

Grids ==
    { [zoom |-> 14, min_tile_x |-> 2620, max_tile_x |-> 2621,
       min_tile_y |-> 6331, max_tile_y |-> 6332] }

GridXs(g) == g.min_tile_x .. g.max_tile_x
GridYs(g) == g.min_tile_y .. g.max_tile_y
GridCells(g) == GridXs(g) \X GridYs(g)

AllCells == UNION { GridCells(g) : g \in Grids }
Zooms == { g.zoom : g \in Grids }
Keys == { CachePath(p, z, c[1], c[2]) : p \in ProviderNames, z \in Zooms, c \in AllCells }

\* Image.new: a blank canvas for tiles of the given size
NewCanvas(g, size) ==
    [tile_size |-> size,
     cells |-> [c \in (0 .. g.max_tile_x - g.min_tile_x) \X (0 .. g.max_tile_y - g.min_tile_y)
                  |-> None]]

\* a provider switch that keeps the canvas of the previous provider
CanvasKept(img, g, size) == img

\* "if provider_tile_size != actual_tile_size: map_img = Image.new(...)"
CanvasFor(img, g, size) == IF size # img.tile_size THEN NewCanvas(g, size) ELSE img

\* map_img.paste(tile, (paste_x, paste_y))
Paste(img, g, x, y, tile) ==
    [img EXCEPT !.cells[<<x - g.min_tile_x, y - g.min_tile_y>>] = tile]

\* no tile: the loops are over
End == <<>>

\* a loop with y outside and x inside
NextTileByRows(g, c) ==
    IF c[1] < g.max_tile_x THEN <<c[1] + 1, c[2]>>
    ELSE IF c[2] < g.max_tile_y THEN <<g.min_tile_x, c[2] + 1>>
    ELSE End

\* the loop "for x in range(..): for y in range(..)": the tile after <<x, y>>,
\* or End after the last one
NextTile(g, c) ==
    IF c[2] < g.max_tile_y THEN <<c[1], c[2] + 1>>
    ELSE IF c[1] < g.max_tile_x THEN <<c[1] + 1, g.min_tile_y>>
    ELSE End

FirstTile(g) == <<g.min_tile_x, g.min_tile_y>>

-----------------------------------------------------------------------------
(* The cache before the call *)

\* the clock when the behaviour starts
StartTime == CACHE_EXPIRY_SECONDS + 1

\* write times of the entries found in the cache: older than the expiry, exactly
\* as old as the expiry, and new
InitialMTimes == {0, 1, StartTime}

\* what an entry found in the cache may be: a valid tile written at m, or bytes
\* that do not decode
EntryKinds == { <<"valid", m>> : m \in InitialMTimes } \cup { <<"corrupt", StartTime>> }

InitialEntry(key, kind) ==
    IF kind[1] = "valid"
    THEN [st |-> "valid", img |-> Tile(key[1], key[2], key[3], key[4]), mtime |-> kind[2]]
    ELSE [st |-> "corrupt", img |-> None, mtime |-> kind[2]]

InitialCaches ==
    UNION { { [k \in Keys |-> IF k \in S THEN InitialEntry(k, f[k]) ELSE NoEntry]
                : f \in [S -> EntryKinds] }
            : S \in { T \in SUBSET Keys : Cardinality(T) <= MaxCached } }

NoGet == [path |-> <<>>, entry |-> NoEntry, at |-> 0, raised |-> FALSE, ret |-> None,
          after |-> NoEntry]

EmptyLog == [p \in ProviderNames |->
                [queried |-> FALSE, lookups |-> 0, hits |-> 0, downloads |-> 0,
                 ok |-> FALSE, failed |-> FALSE, placed |-> {}, put_raised |-> FALSE]]

NoGrid == [zoom |-> 0, min_tile_x |-> 0, max_tile_x |-> 0, min_tile_y |-> 0, max_tile_y |-> 0]

\* the state before the call, over one of the given caches
AsmInitOver(caches) ==
    /\ now = StartTime
    /\ cache \in caches
    /\ pc = "idle"
    /\ use_mapbox \in BOOLEAN
    /\ grid = NoGrid
    /\ pidx = 0
    /\ cur = End
    /\ sub = 0
    /\ map_img = None
    /\ tiles_downloaded = 0
    /\ tiles_from_cache = 0
    /\ provider_used = "None"
    /\ error = "none"
    /\ lastGet = NoGet
    /\ log = EmptyLog
    /\ ticks = 0
    /\ cache0 = cache

AsmInit == AsmInitOver(InitialCaches)

\* the assembly call is not running
AsmIdle ==
    /\ now = StartTime
    /\ cache = Unused /\ cache0 = Unused /\ pc = Unused /\ use_mapbox = Unused
    /\ grid = Unused /\ pidx = Unused /\ cur = Unused /\ sub = Unused
    /\ map_img = Unused /\ tiles_downloaded = Unused /\ tiles_from_cache = Unused
    /\ provider_used = Unused /\ error = Unused /\ lastGet = Unused
    /\ log = Unused /\ ticks = Unused

ConcIdle == file = Unused /\ procs = Unused
GridIdle == req = Unused /\ bg = Unused
ClusterIdle == cl_in = Unused /\ cl_out = Unused
SmoothIdle == sm_in = Unused /\ sm_out = Unused
RenderIdle == rd_in = Unused /\ rd_out = Unused
ZoomIdle == zm_in = Unused /\ zm_out = Unused

Init ==
    /\ AsmInit /\ ConcIdle /\ GridIdle /\ ClusterIdle
    /\ SmoothIdle /\ RenderIdle /\ ZoomIdle

-----------------------------------------------------------------------------
(* create_minimal_map_background: the provider loop *)

Providers == TileProviders(use_mapbox)
Provider == Providers[pidx]

\* the call starts: grid derived, canvas created, counters zeroed
Start ==
    /\ pc = "idle"
    /\ \E g \in Grids :
        /\ grid' = g
        /\ map_img' = NewCanvas(g, InitialTileSize(use_mapbox))
    /\ pidx' = 1
    /\ pc' = "provider"
    /\ UNCHANGED <<now, cache, use_mapbox, cur, sub, tiles_downloaded,
                   tiles_from_cache, provider_used, error, lastGet, log, ticks, cache0, file, procs, req, bg, cl_in, cl_out,
                 sm_in, sm_out, rd_in, rd_out, zm_in, zm_out>>

\* a provider loop without the break
PassStartsNoBreak(i, downloaded) == i <= Len(Providers)

\* whether the provider loop goes on to provider i
PassStarts(i, downloaded) == i <= Len(Providers) /\ ~(downloaded > 0)

\* "for provider in tile_providers: if tiles_downloaded > 0: break", and the
\* canvas replaced when the provider's tile size differs
ProviderPass ==
    /\ pc = "provider"
    /\ IF PassStarts(pidx, tiles_downloaded)
       THEN /\ map_img' = CanvasFor(map_img, grid, Provider.tile_size)
            /\ cur' = FirstTile(grid)
            /\ pc' = "tile"
       ELSE /\ pc' = "finish"
            /\ UNCHANGED <<map_img, cur>>
    /\ UNCHANGED <<now, cache, use_mapbox, grid, pidx, sub, tiles_downloaded,
                   tiles_from_cache, provider_used, error, lastGet, log, ticks, cache0, file, procs, req, bg, cl_in, cl_out,
                 sm_in, sm_out, rd_in, rd_out, zm_in, zm_out>>

\* the position after the tile cur is done with
Advance ==
    IF NextTile(grid, cur) = End
    THEN /\ pc' = "provider"
         /\ pidx' = pidx + 1
         /\ cur' = End
    ELSE /\ pc' = "tile"
         /\ pidx' = pidx
         /\ cur' = NextTile(grid, cur)

\* "cached_tile = tile_cache.get(...)": a hit is pasted and counted, a miss goes
\* on to the download; the call is outside any try, so a get that raises ends
\* the assembly, and so does the resize or paste of an image whose data
\* cannot be loaded
CacheLookup(fs) ==
    /\ pc = "tile"
    /\ LET got == TileCacheGet(cache, Provider.name, grid.zoom, cur[1], cur[2], now, fs)
           path == CachePath(Provider.name, grid.zoom, cur[1], cur[2])
       IN  /\ cache' = got.cache
           /\ lastGet' = [path |-> path, entry |-> cache[path], at |-> now,
                          raised |-> got.raised, ret |-> got.ret,
                          after |-> got.cache[path]]
           /\ IF got.raised
              THEN /\ pc' = "raised"
                   /\ error' = "OSError"
                   /\ log' = [log EXCEPT ![Provider.name].queried = TRUE,
                                         ![Provider.name].lookups = @ + 1]
                   /\ UNCHANGED <<map_img, tiles_downloaded, tiles_from_cache,
                                  provider_used, pidx, cur, sub>>
              ELSE IF got.ret = TornImage
              THEN /\ pc' = "raised"
                   /\ error' = "image file is truncated"
                   /\ log' = [log EXCEPT ![Provider.name].queried = TRUE,
                                         ![Provider.name].lookups = @ + 1]
                   /\ UNCHANGED <<map_img, tiles_downloaded, tiles_from_cache,
                                  provider_used, pidx, cur, sub>>
              ELSE IF got.ret # None
              THEN /\ map_img' = Paste(map_img, grid, cur[1], cur[2], got.ret)
                   /\ tiles_downloaded' = tiles_downloaded + 1
                   /\ tiles_from_cache' = tiles_from_cache + 1
                   /\ provider_used' = Provider.name
                   /\ log' = [log EXCEPT ![Provider.name].queried = TRUE,
                                         ![Provider.name].lookups = @ + 1,
                                         ![Provider.name].hits = @ + 1]
                   /\ sub' = sub
                   /\ error' = error
                   /\ Advance
              ELSE /\ log' = [log EXCEPT ![Provider.name].queried = TRUE,
                                         ![Provider.name].lookups = @ + 1]
                   /\ sub' = 1
                   /\ pc' = "download"
                   /\ UNCHANGED <<map_img, tiles_downloaded, tiles_from_cache,
                                  provider_used, pidx, cur, error>>
    /\ UNCHANGED <<now, use_mapbox, grid, ticks, cache0, file, procs, req, bg, cl_in, cl_out,
                 sm_in, sm_out, rd_in, rd_out, zm_in, zm_out>>

\* a download that gives the tile up after one failure
NextSubdomainGivesUp ==
    /\ sub' = 0
    /\ Advance

\* "for subdomain in ...: try: ... except Exception: continue" after the
\* sub-domain sub: the next sub-domain, or the next tile after the last one
NextSubdomain ==
    IF sub < Provider.subdomains
    THEN /\ sub' = sub + 1
         /\ UNCHANGED <<pc, pidx, cur>>
    ELSE /\ sub' = 0
         /\ Advance

\* one pass of "for subdomain in provider['subdomains']": the request, and on
\* a 200 with a decodable body the paste, the count and the put, then "break";
\* an exception anywhere in the try block, the put included, is caught and the
\* loop continues with the next sub-domain
Download(outcome, fs) ==
    /\ pc = "download"
    /\ IF outcome = "ok"
       THEN LET tile == Tile(Provider.name, grid.zoom, cur[1], cur[2])
                put == TileCachePut(cache, Provider.name, grid.zoom,
                                    cur[1], cur[2], tile, now, fs)
            IN  /\ map_img' = Paste(map_img, grid, cur[1], cur[2], tile)
                /\ tiles_downloaded' = tiles_downloaded + 1
                /\ provider_used' = Provider.name
                /\ cache' = put.cache
                /\ log' = [log EXCEPT ![Provider.name].downloads = @ + 1,
                                      ![Provider.name].ok = TRUE,
                                      ![Provider.name].placed = @ \cup {cur},
                                      ![Provider.name].put_raised = @ \/ put.raised]
                /\ IF put.raised
                   THEN NextSubdomain
                   ELSE /\ sub' = 0
                        /\ Advance
       ELSE /\ log' = [log EXCEPT ![Provider.name].failed = TRUE]
            /\ NextSubdomain
            /\ UNCHANGED <<map_img, tiles_downloaded, provider_used, cache>>
    /\ UNCHANGED <<now, use_mapbox, grid, tiles_from_cache, error, lastGet, ticks, cache0, file, procs, req, bg, cl_in, cl_out,
                 sm_in, sm_out, rd_in, rd_out, zm_in, zm_out>>

\* a test that counts the downloads only, not the cache hits
NoTilesDownloadsOnly(downloaded) == downloaded - tiles_from_cache = 0

\* whether the call raises after the provider loop
NoTiles(downloaded) == downloaded = 0

\* "if tiles_downloaded == 0: raise Exception(...)", else the raster is returned
Finish ==
    /\ pc = "finish"
    /\ IF NoTiles(tiles_downloaded)
       THEN /\ pc' = "raised"
            /\ error' = "No map tiles could be downloaded from any provider"
       ELSE /\ pc' = "returned"
            /\ error' = error
    /\ UNCHANGED <<now, cache, use_mapbox, grid, pidx, cur, sub, map_img,
                   tiles_downloaded, tiles_from_cache, provider_used, lastGet,
                   log, ticks, cache0, file, procs, req, bg, cl_in, cl_out,
                 sm_in, sm_out, rd_in, rd_out, zm_in, zm_out>>

\* time passes
Tick ==
    /\ ticks < MaxTick
    /\ ticks' = ticks + 1
    /\ now' = now + 1
    /\ UNCHANGED <<cache, pc, use_mapbox, grid, pidx, cur, sub, map_img,
                   tiles_downloaded, tiles_from_cache, provider_used, error,
                   lastGet, log, cache0, file, procs, req, bg, cl_in, cl_out,
                 sm_in, sm_out, rd_in, rd_out, zm_in, zm_out>>

\* the cache lookup and the request of a tile, with the cache directory working
Lookup == CacheLookup("ok")

Request == \E outcome \in RequestOutcomes : Download(outcome, "ok")

Next ==
    \/ Start
    \/ ProviderPass
    \/ Lookup
    \/ Request
    \/ Finish
    \/ Tick

Spec == Init /\ [][Next]_vars

-----------------------------------------------------------------------------
(* The same call over a cache directory whose operations may fail *)

\* a get whose unlink fails, or whose directory cannot be made
LookupFsFault == \E fs \in {"unlink_fails", "mkdir_fails"} : CacheLookup(fs)

\* a successful download whose put fails to save, or cannot make its directory
PutFsFault == \E fs \in {"save_fails", "mkdir_fails"} : Download("ok", fs)

NextFault ==
    \/ Start
    \/ ProviderPass
    \/ Lookup
    \/ Request
    \/ Finish
    \/ LookupFsFault
    \/ PutFsFault

SpecFault == Init /\ [][NextFault]_vars

-----------------------------------------------------------------------------
(* The same call over a cache that holds damaged entries (SpecCorrupt): bytes *)
(* that do not decode at all, and files cut short after a whole header, as a  *)
(* write that was interrupted leaves them.                                    *)

DamagedKinds == {"corrupt", "torn"}

DamagedCaches ==
    UNION { { [k \in Keys |-> IF k \in S
                              THEN [st |-> f[k], img |-> None, mtime |-> StartTime]
                              ELSE NoEntry]
                : f \in [S -> DamagedKinds] }
            : S \in { T \in SUBSET Keys : Cardinality(T) = 1 } }

InitCorrupt ==
    /\ AsmInitOver(DamagedCaches)
    /\ ConcIdle /\ GridIdle /\ ClusterIdle /\ SmoothIdle /\ RenderIdle /\ ZoomIdle

SpecCorrupt == InitCorrupt /\ [][Next]_vars

-----------------------------------------------------------------------------
(* get and put calls on one cache entry while time passes (SpecReads)        *)

\* get and put calls made on the entry
MaxCalls == 3

\* the key the calls are made on
ReadKey == [provider |-> Carto, zoom |-> 14, x |-> 2620, y |-> 6331]
ReadPath == CachePath(ReadKey.provider, ReadKey.zoom, ReadKey.x, ReadKey.y)

\* the caches that hold nothing beside the entry of the key
CachesOfKey == { c \in InitialCaches : \A k \in Keys : k # ReadPath => c[k] = NoEntry }

\* the calls so far, the hits since the last put, and the time of the last
\* write of the entry
ReadLog(calls, hits, put_at) == [calls |-> calls, hits |-> hits, put_at |-> put_at]

InitReads ==
    /\ now = StartTime
    /\ cache \in CachesOfKey
    /\ lastGet = NoGet
    /\ log = ReadLog(0, 0, IF cache[ReadPath] = NoEntry THEN 0 ELSE cache[ReadPath].mtime)
    /\ ticks = 0
    /\ cache0 = cache
    /\ pc = Unused /\ use_mapbox = Unused /\ grid = Unused /\ pidx = Unused
    /\ cur = Unused /\ sub = Unused /\ map_img = Unused /\ tiles_downloaded = Unused
    /\ tiles_from_cache = Unused /\ provider_used = Unused /\ error = Unused
    /\ ConcIdle /\ GridIdle /\ ClusterIdle /\ SmoothIdle /\ RenderIdle /\ ZoomIdle

ReadsFrame ==
    UNCHANGED <<now, pc, use_mapbox, grid, pidx, cur, sub, map_img, tiles_downloaded,
                tiles_from_cache, provider_used, error, ticks, cache0,
                concVars, gridVars, clusterVars, smoothVars, renderVars, zoomVars>>

\* tile_cache.get(provider, zoom, x, y)
ReadTile ==
    /\ log.calls < MaxCalls
    /\ LET got == TileCacheGet(cache, ReadKey.provider, ReadKey.zoom, ReadKey.x,
                               ReadKey.y, now, "ok")
       IN  /\ cache' = got.cache
           /\ lastGet' = [path |-> ReadPath, entry |-> cache[ReadPath], at |-> now,
                          raised |-> got.raised, ret |-> got.ret,
                          after |-> got.cache[ReadPath]]
           /\ log' = [log EXCEPT !.calls = @ + 1,
                                 !.hits = IF got.ret # None THEN @ + 1 ELSE @]
    /\ ReadsFrame

\* tile_cache.put(provider, zoom, x, y, tile)
WriteTile ==
    /\ log.calls < MaxCalls
    /\ LET put == TileCachePut(cache, ReadKey.provider, ReadKey.zoom, ReadKey.x,
                               ReadKey.y,
                               Tile(ReadKey.provider, ReadKey.zoom, ReadKey.x, ReadKey.y),
                               now, "ok")
       IN  /\ cache' = put.cache
           /\ log' = ReadLog(log.calls + 1, 0, now)
    /\ UNCHANGED lastGet
    /\ ReadsFrame

NextReads == ReadTile \/ WriteTile \/ Tick

SpecReads == InitReads /\ [][NextReads]_vars

-----------------------------------------------------------------------------
(* Two processes on one cache file (SpecConc).  get and put are followed    *)
(* through their file-system calls: exists, stat, unlink, Image.open in      *)
(* get; the open that truncates the file and the write of the bytes in put.  *)

Procs == {1, 2}

\* get and put calls one process makes
MaxOps == 2

\* the file as the processes find it: absent, a complete tile (new or older
\* than the expiry), or bytes that do not decode
InitialFiles ==
    { [st |-> "absent", mtime |-> 0, writers |-> 0],
      [st |-> "valid", mtime |-> StartTime, writers |-> 0],
      [st |-> "valid", mtime |-> 0, writers |-> 0],
      [st |-> "corrupt", mtime |-> StartTime, writers |-> 0] }

InitConc ==
    /\ file \in InitialFiles
    /\ procs = [i \in Procs |-> [at |-> "idle", ret |-> "none", ops |-> 0]]
    /\ AsmIdle /\ GridIdle /\ ClusterIdle
    /\ SmoothIdle /\ RenderIdle /\ ZoomIdle

ConcFrame == UNCHANGED <<asmVars, gridVars, clusterVars, smoothVars, renderVars, zoomVars>>

\* process i is at position a and moves to position b with result r
Move(i, b, r) == procs' = [procs EXCEPT ![i].at = b, ![i].ret = r]

\* get(...) is called; _get_cache_path
GetCall(i) ==
    /\ procs[i].at = "idle"
    /\ procs[i].ops < MaxOps
    /\ procs' = [procs EXCEPT ![i] = [at |-> "g_exists", ret |-> "none", ops |-> @.ops + 1]]
    /\ UNCHANGED file
    /\ ConcFrame

\* "if not cache_path.exists(): return None"
GetExists(i) ==
    /\ procs[i].at = "g_exists"
    /\ IF file.st = "absent" THEN Move(i, "idle", "None") ELSE Move(i, "g_stat", "none")
    /\ UNCHANGED file
    /\ ConcFrame

\* what "cache_path.stat()" does on a file that is gone
StatOfMissing == "raised"

\* "file_age = time.time() - cache_path.stat().st_mtime", outside any try
GetStat(i) ==
    /\ procs[i].at = "g_stat"
    /\ IF file.st = "absent"
       THEN Move(i, "idle", StatOfMissing)
       ELSE IF Expired(file, now)
       THEN Move(i, "g_unlink", "none")
       ELSE Move(i, "g_open", "none")
    /\ UNCHANGED file
    /\ ConcFrame

\* decode: "Image.open(cache_path)" inside try.  Image.open reads the header only:
\* of a file that is being written it may fail, or return an image whose data is
\* not all there
GetOpen(i) ==
    /\ procs[i].at = "g_open"
    /\ \/ /\ file.st = "valid"
          /\ Move(i, "idle", "image")
       \/ /\ file.st \in {"absent", "corrupt", "torn"}
          /\ Move(i, "g_unlink", "none")
       \/ /\ file.st = "torn"
          /\ Move(i, "idle", "torn_image")
    /\ UNCHANGED file
    /\ ConcFrame

\* "try: cache_path.unlink() except: pass; return None"
GetUnlink(i) ==
    /\ procs[i].at = "g_unlink"
    /\ file' = [file EXCEPT !.st = "absent"]
    /\ Move(i, "idle", "None")
    /\ ConcFrame

\* put(...) is called; _get_cache_path
PutCall(i) ==
    /\ procs[i].at = "idle"
    /\ procs[i].ops < MaxOps
    /\ procs' = [procs EXCEPT ![i] = [at |-> "p_open", ret |-> "none", ops |-> @.ops + 1]]
    /\ UNCHANGED file
    /\ ConcFrame

\* image.save opens the file for writing: it exists, empty, from now on
PutOpen(i) ==
    /\ procs[i].at = "p_open"
    /\ file' = [st |-> "torn", mtime |-> now, writers |-> file.writers + 1]
    /\ Move(i, "p_write", "none")
    /\ ConcFrame

\* image.save has written the bytes, or failed part-way (swallowed by put)
PutWrite(i) ==
    /\ procs[i].at = "p_write"
    /\ \/ file' = [file EXCEPT !.writers = @ - 1,
                                !.st = IF file.st = "absent" THEN "absent"
                                       ELSE IF file.writers = 1 THEN "valid"
                                       ELSE "torn"]
       \/ file' = [file EXCEPT !.writers = @ - 1]
    /\ Move(i, "idle", "stored")
    /\ ConcFrame

NextConc ==
    \/ \E i \in Procs : GetCall(i)
    \/ \E i \in Procs : GetExists(i)
    \/ \E i \in Procs : GetStat(i)
    \/ \E i \in Procs : GetOpen(i)
    \/ \E i \in Procs : GetUnlink(i)
    \/ \E i \in Procs : PutCall(i)
    \/ \E i \in Procs : PutOpen(i)
    \/ \E i \in Procs : PutWrite(i)

SpecConc == InitConc /\ [][NextConc]_vars

-----------------------------------------------------------------------------
(* Projection math and tile-grid derivation (SpecGrid).                      *)
(* Angles are integers, DegUnit to the degree, so that the 2% padding of     *)
(* the sampled boxes and every tile edge up to zoom 19 are whole numbers.    *)
(* Normalised Mercator Y is an integer, MercScale to the interval [0, 1].    *)

DegUnit == 50 * (2^15)
MercScale == 2^26

World == 360 * DegUnit
HalfWorld == 180 * DegUnit

\* int(a / b) for b > 0: Python's int() truncates toward zero
Trunc(a, b) == IF a >= 0 THEN a \div b ELSE -((-a) \div b)

Abs(a) == IF a >= 0 THEN a ELSE -a
Maximum(a, b) == IF a >= b THEN a ELSE b
Minimum(a, b) == IF a <= b THEN a ELSE b

RECURSIVE GCD(_, _)
GCD(a, b) == IF b = 0 THEN a ELSE GCD(b, a % b)

\* the width of one tile at a zoom level: 360 / n degrees, 1 / n of Mercator Y
TileSpan(zoom) == World \div (2^zoom)
MercSpan(zoom) == MercScale \div (2^zoom)

\* (1 - asinh(tan(lat)) / pi) / 2 at the latitudes KnotBase + k * KnotStep
\* (35 to 41 degrees, every 0.02 degree), times MercScale
KnotBase == 35 * DegUnit
KnotStep == DegUnit \div 50
MercTable ==
    <<
       26581675, 26577124, 26572571, 26568016, 26563461, 26558905, 26554347, 26549789,
       26545229, 26540668, 26536106, 26531543, 26526979, 26522413, 26517847, 26513279,
       26508710, 26504140, 26499569, 26494997, 26490424, 26485850, 26481274, 26476697,
       26472120, 26467541, 26462960, 26458379, 26453797, 26449213, 26444629, 26440043,
       26435456, 26430868, 26426278, 26421688, 26417096, 26412504, 26407910, 26403315,
       26398719, 26394121, 26389523, 26384923, 26380322, 26375720, 26371117, 26366513,
       26361907, 26357301, 26352693, 26348084, 26343474, 26338862, 26334250, 26329636,
       26325021, 26320405, 26315788, 26311170, 26306550, 26301930, 26297308, 26292685,
       26288060, 26283435, 26278808, 26274180, 26269551, 26264921, 26260290, 26255657,
       26251023, 26246388, 26241752, 26237115, 26232476, 26227836, 26223195, 26218553,
       26213910, 26209265, 26204619, 26199972, 26195324, 26190675, 26186024, 26181372,
       26176719, 26172065, 26167410, 26162753, 26158095, 26153436, 26148776, 26144114,
       26139451, 26134787, 26130122, 26125456, 26120788, 26116119, 26111449, 26106777,
       26102105, 26097431, 26092756, 26088080, 26083402, 26078723, 26074043, 26069362,
       26064679, 26059996, 26055311, 26050625, 26045937, 26041248, 26036558, 26031867,
       26027175, 26022481, 26017786, 26013090, 26008392, 26003693, 25998993, 25994292,
       25989590, 25984886, 25980181, 25975474, 25970767, 25966058, 25961348, 25956636,
       25951924, 25947210, 25942495, 25937778, 25933060, 25928341, 25923621, 25918899,
       25914177, 25909452, 25904727, 25900000, 25895272, 25890543, 25885812, 25881080,
       25876347, 25871613, 25866877, 25862140, 25857402, 25852662, 25847921, 25843179,
       25838435, 25833690, 25828944, 25824197, 25819448, 25814698, 25809946, 25805194,
       25800440, 25795684, 25790928, 25786170, 25781410, 25776650, 25771888, 25767125,
       25762360, 25757594, 25752827, 25748058, 25743289, 25738517, 25733745, 25728971,
       25724196, 25719419, 25714641, 25709862, 25705082, 25700300, 25695516, 25690732,
       25685946, 25681159, 25676370, 25671580, 25666789, 25661996, 25657202, 25652407,
       25647610, 25642812, 25638013, 25633212, 25628410, 25623606, 25618801, 25613995,
       25609188, 25604379, 25599568, 25594757, 25589944, 25585129, 25580313, 25575496,
       25570678, 25565858, 25561036, 25556214, 25551389, 25546564, 25541737, 25536909,
       25532079, 25527248, 25522416, 25517582, 25512747, 25507910, 25503072, 25498233,
       25493392, 25488550, 25483706, 25478861, 25474015, 25469167, 25464318, 25459467,
       25454615, 25449762, 25444907, 25440051, 25435193, 25430334, 25425473, 25420612,
       25415748, 25410883, 25406017, 25401150, 25396281, 25391410, 25386538, 25381665,
       25376790, 25371914, 25367036, 25362157, 25357277, 25352395, 25347511, 25342626,
       25337740, 25332852, 25327963, 25323073, 25318180, 25313287, 25308392, 25303496,
       25298598, 25293698, 25288797, 25283895, 25278991, 25274086, 25269180, 25264272,
       25259362, 25254451, 25249538, 25244624, 25239709, 25234792, 25229873, 25224954,
       25220032, 25215109, 25210185, 25205259, 25200332, 25195403, 25190473, 25185541,
       25180608, 25175673, 25170737, 25165799, 25160860
    >>

Knots == Len(MercTable)

\* the table interval a latitude lies in (the first or last one outside it)
KnotOf(lat) == Maximum(1, Minimum(Knots - 1, ((lat - KnotBase) \div KnotStep) + 1))

\* lat_to_mercator_y: the table, linear between two knots
LatToMercatorY(lat) ==
    LET k == KnotOf(lat)
        off == lat - (KnotBase + (k - 1) * KnotStep)
    IN  MercTable[k] - (((MercTable[k] - MercTable[k + 1]) * off) \div KnotStep)

RECURSIVE FindKnot(_, _, _)
FindKnot(m, lo, hi) ==
    IF hi - lo <= 1 THEN lo
    ELSE LET mid == (lo + hi) \div 2
         IN  IF MercTable[mid] >= m THEN FindKnot(m, mid, hi) ELSE FindKnot(m, lo, mid)

\* mercator_y_to_lat: the inverse of the table
MercatorYToLat(m) ==
    LET k == FindKnot(m, 1, Knots)
    IN  KnotBase + (k - 1) * KnotStep
          + (((MercTable[k] - m) * KnotStep) \div (MercTable[k] - MercTable[k + 1]))

\* lat_lon_to_tile: int((lon + 180) / 360 * n) and int(mercator_y * n)
LatLonToTile(lat, lon, zoom) ==
    [x |-> Trunc(lon + HalfWorld, TileSpan(zoom)),
     y |-> Trunc(LatToMercatorY(lat), MercSpan(zoom))]

\* tile_to_lat_lon: the north-west corner of tile (x, y)
TileToLatLon(x, y, zoom) ==
    [lat |-> MercatorYToLat(y * MercSpan(zoom)),
     lon |-> x * TileSpan(zoom) - HalfWorld]

SeqMin(q, i) == CHOOSE v \in { q[k][i] : k \in DOMAIN q } : \A k \in DOMAIN q : v <= q[k][i]
SeqMax(q, i) == CHOOSE v \in { q[k][i] : k \in DOMAIN q } : \A k \in DOMAIN q : v >= q[k][i]

\* "range * padding" with padding = 0.02
Padding(range) == (range * 2) \div 100

\* get_map_bounds
GetMapBounds(coordinates) ==
    LET min_lat == SeqMin(coordinates, 1)
        max_lat == SeqMax(coordinates, 1)
        min_lon == SeqMin(coordinates, 2)
        max_lon == SeqMax(coordinates, 2)
    IN  [min_lat |-> min_lat - Padding(max_lat - min_lat),
         max_lat |-> max_lat + Padding(max_lat - min_lat),
         min_lon |-> min_lon - Padding(max_lon - min_lon),
         max_lon |-> max_lon + Padding(max_lon - min_lon)]

\* custom_zoom=None
NoZoom == 0 - 1

\* the threshold table on max(lat_range, lon_range)
\* a zoom table with two of its rows exchanged
EstimateZoomSwapped(lat_range, lon_range) ==
    LET span == Maximum(lat_range, lon_range)
    IN  IF span > DegUnit THEN 10
        ELSE IF span > DegUnit \div 2 THEN 11
        ELSE IF span > DegUnit \div 10 THEN 12
        ELSE IF span > DegUnit \div 20 THEN 14
        ELSE IF span > DegUnit \div 50 THEN 13
        ELSE 15

EstimateZoom(lat_range, lon_range) ==
    LET span == Maximum(lat_range, lon_range)
    IN  IF span > DegUnit THEN 10
        ELSE IF span > DegUnit \div 2 THEN 11
        ELSE IF span > DegUnit \div 10 THEN 12
        ELSE IF span > DegUnit \div 20 THEN 13
        ELSE IF span > DegUnit \div 50 THEN 14
        ELSE 15

ResolveZoom(b, custom_zoom) ==
    IF custom_zoom # NoZoom THEN custom_zoom
    ELSE EstimateZoom(b.max_lat - b.min_lat, b.max_lon - b.min_lon)

\* "Get tile coordinates for corners"
CornerTiles(b, zoom) ==
    LET sw == LatLonToTile(b.min_lat, b.min_lon, zoom)
        ne == LatLonToTile(b.max_lat, b.max_lon, zoom)
    IN  [zoom |-> zoom, min_tile_x |-> sw.x, max_tile_x |-> ne.x,
         min_tile_y |-> ne.y, max_tile_y |-> sw.y]

\* "Ensure we have at least one tile"
AtLeastOneTile(g) ==
    [g EXCEPT !.max_tile_x = IF g.min_tile_x = g.max_tile_x THEN @ + 1 ELSE @,
              !.max_tile_y = IF g.min_tile_y = g.max_tile_y THEN @ + 1 ELSE @]

\* an expansion that moves the grid instead of growing it
ExpandShifted(g, width, height) ==
    LET tiles_x == g.max_tile_x - g.min_tile_x + 1
        tiles_y == g.max_tile_y - g.min_tile_y + 1
    IN  IF Abs(tiles_x * height - width * tiles_y) * 10 <= tiles_y * height
        THEN g
        ELSE IF width * tiles_y > tiles_x * height
        THEN LET expand == ((tiles_y * width) \div height) - tiles_x
             IN  IF expand > 0
                 THEN [g EXCEPT !.max_tile_x = @ + (expand \div 2),
                                !.min_tile_x = @ + (expand - (expand \div 2))]
                 ELSE g
        ELSE LET expand == ((tiles_x * height) \div width) - tiles_y
             IN  IF expand > 0
                 THEN [g EXCEPT !.max_tile_y = @ + (expand \div 2),
                                !.min_tile_y = @ + (expand - (expand \div 2))]
                 ELSE g

\* "Adjust tile grid to match target aspect ratio": with target_aspect =
\* width / height and current_aspect = tiles_x / tiles_y, compared as fractions
ExpandToAspect(g, width, height) ==
    LET tiles_x == g.max_tile_x - g.min_tile_x + 1
        tiles_y == g.max_tile_y - g.min_tile_y + 1
    IN  IF Abs(tiles_x * height - width * tiles_y) * 10 <= tiles_y * height
        THEN g
        ELSE IF width * tiles_y > tiles_x * height
        THEN LET expand == ((tiles_y * width) \div height) - tiles_x
             IN  IF expand > 0
                 THEN [g EXCEPT !.max_tile_x = @ + (expand \div 2),
                                !.min_tile_x = @ - (expand - (expand \div 2))]
                 ELSE g
        ELSE LET expand == ((tiles_x * height) \div width) - tiles_y
             IN  IF expand > 0
                 THEN [g EXCEPT !.max_tile_y = @ + (expand \div 2),
                                !.min_tile_y = @ - (expand - (expand \div 2))]
                 ELSE g

\* a grid that is expanded whatever the zoom
TileGridExpanded(corner, width, height, custom_zoom) ==
    ExpandToAspect(corner, width, height)

\* the grid the tiles are fetched for: the expansion is skipped with a custom zoom
TileGrid(corner, width, height, custom_zoom) ==
    IF custom_zoom = NoZoom THEN ExpandToAspect(corner, width, height) ELSE corner

\* an extent that stops at the north-west corner of the last tile
TileExtentShort(g) ==
    LET nw == TileToLatLon(g.min_tile_x, g.min_tile_y, g.zoom)
        se == TileToLatLon(g.max_tile_x, g.max_tile_y, g.zoom)
    IN  [min_lon |-> nw.lon, max_lon |-> se.lon, min_lat |-> se.lat, max_lat |-> nw.lat]

\* "Calculate the actual geographic extent of the tiles"
TileExtent(g) ==
    LET nw == TileToLatLon(g.min_tile_x, g.min_tile_y, g.zoom)
        se == TileToLatLon(g.max_tile_x + 1, g.max_tile_y + 1, g.zoom)
    IN  [min_lon |-> nw.lon, max_lon |-> se.lon, min_lat |-> se.lat, max_lat |-> nw.lat]

\* int(d / range * pixels) where range / pixels = span / size
Pixel(d, size, span) ==
    LET g == GCD(size, span) IN Trunc(d * (size \div g), span \div g)

\* the crop box in pixels of the stitched raster, for a custom zoom; the
\* Mercator range of the raster is taken as tiles_high tile spans
CropBox(b, g, ext, size) ==
    LET tile_img_width == (g.max_tile_x - g.min_tile_x + 1) * size
        tile_img_height == (g.max_tile_y - g.min_tile_y + 1) * size
        actual_min_merc_y == LatToMercatorY(ext.max_lat)
        req_min_merc_y == LatToMercatorY(b.max_lat)
        req_max_merc_y == LatToMercatorY(b.min_lat)
    IN  [left |-> Maximum(0, Pixel(b.min_lon - ext.min_lon, size, TileSpan(g.zoom))),
         right |-> Minimum(tile_img_width,
                           Pixel(b.max_lon - ext.min_lon, size, TileSpan(g.zoom))),
         top |-> Maximum(0, Pixel(req_min_merc_y - actual_min_merc_y, size, MercSpan(g.zoom))),
         bottom |-> Minimum(tile_img_height,
                            Pixel(req_max_merc_y - actual_min_merc_y, size, MercSpan(g.zoom)))]

\* "if right > left and bottom > top"
ValidCrop(box) == box.right > box.left /\ box.bottom > box.top

\* the extent with its Mercator Y bounds, as returned
WithMercator(ext) ==
    [min_lon |-> ext.min_lon, max_lon |-> ext.max_lon,
     min_lat |-> ext.min_lat, max_lat |-> ext.max_lat,
     merc_y_min |-> LatToMercatorY(ext.max_lat),
     merc_y_max |-> LatToMercatorY(ext.min_lat)]

\* the geometry of create_minimal_map_background for a call that obtained a
\* tile: zoom, grid before and after the expansion, extent returned
BasemapGeometry(r) ==
    LET b == GetMapBounds(r.coordinates)
        zoom == ResolveZoom(b, r.custom_zoom)
        corner == AtLeastOneTile(CornerTiles(b, zoom))
        g == TileGrid(corner, r.width, r.height, r.custom_zoom)
        ext == TileExtent(g)
        crop == r.custom_zoom # NoZoom /\ ValidCrop(CropBox(b, g, ext, r.tile_size))
    IN  [done |-> TRUE, bounds |-> b, zoom |-> zoom, corner |-> corner, grid |-> g,
         cropped |-> crop,
         extent |-> WithMercator(IF crop THEN b ELSE ext)]

\* the start of a trace near San Francisco, and the spans of the sampled traces
LatBase == 37 * DegUnit + 1261550
LatSpans == {0, 16400, 49150, 131100, 327700, 983050, 1966100}
WestLons == {0 - 200556550, 0 - 294910350}
EastLons == {294903800}
LonSpans == {0, 50, 16400, 131100, 1966100}

LonPairs ==
    { <<w, w + d>> : w \in WestLons, d \in LonSpans }
    \cup { <<e - d, e>> : e \in EastLons, d \in LonSpans }

CanvasSizes == { <<1000, 1000>>, <<1600, 900>>, <<900, 1600>> }
CustomZooms == {NoZoom, 12, 16}

GridRequests ==
    { [coordinates |-> << <<LatBase, l[1]>>, <<LatBase + d, l[2]>> >>,
       width |-> c[1], height |-> c[2], custom_zoom |-> z, tile_size |-> t]
        : d \in LatSpans, l \in LonPairs, c \in CanvasSizes, z \in CustomZooms,
          t \in {512, 1024} }

NoBg == [done |-> FALSE]

InitGrid ==
    /\ req \in GridRequests
    /\ bg = NoBg
    /\ AsmIdle /\ ConcIdle /\ ClusterIdle
    /\ SmoothIdle /\ RenderIdle /\ ZoomIdle

\* the call derives its grid, fetches the tiles and returns
Derive ==
    /\ ~bg.done
    /\ bg' = BasemapGeometry(req)
    /\ UNCHANGED <<req, asmVars, concVars, clusterVars, smoothVars, renderVars, zoomVars>>

NextGrid == Derive

SpecGrid == InitGrid /\ [][NextGrid]_vars

-----------------------------------------------------------------------------
(* Areas of interest (SpecCluster): find_areas_of_interest, one pass of the  *)
(* outer loop per step.  Start points lie on one meridian and a latitude is  *)
(* given in kilometres of arc from a reference, so that the great-circle     *)
(* distance of two of them is the difference of their latitudes.             *)

MaxActivities == 4

\* a distance that comes out at half its length
HaversineHalved(lat1, lon1, lat2, lon2) == Abs(lat1 - lat2) \div 2

\* haversine_distance, for two points of the same longitude
HaversineDistance(lat1, lon1, lat2, lon2) == Abs(lat1 - lat2)

StartLats == {0, 4, 8}
Radii == {3, 4, 5}
MinActivities == {None, [value |-> 1], [value |-> 2], [value |-> 3]}

\* an activity with no coordinates, and one that starts at a latitude
NoCoordinates == [coordinates |-> <<>>]
StartsAt(lat) == [coordinates |-> << <<lat, 0>> >>]

\* every list of up to MaxActivities activities
ShortLists ==
    UNION { [1..n -> {NoCoordinates} \cup { StartsAt(l) : l \in StartLats }]
              : n \in 0..MaxActivities }

MaxCrowd == 9

\* longer lists: k activities without coordinates, then the rest at one place
Crowds ==
    { [i \in 1..n |-> IF i <= k THEN NoCoordinates ELSE StartsAt(l)]
        : n \in (MaxActivities + 1)..MaxCrowd, k \in 0..MaxCrowd, l \in StartLats }

ActivityLists == ShortLists \cup Crowds

\* a default that is always 2
MinActivitiesFlat(min_activities, n) ==
    IF min_activities = None THEN 2 ELSE min_activities.value

\* "if min_activities is None: min_activities = max(2, len(activities_data) // 3)"
MinActivitiesOf(min_activities, n) ==
    IF min_activities = None THEN Maximum(2, n \div 3) ELSE min_activities.value

RECURSIVE StartPoints(_, _)
\* "Extract start points": of the activities from position i on
StartPoints(activities_data, i) ==
    IF i > Len(activities_data) THEN <<>>
    ELSE LET coords == activities_data[i].coordinates
             rest == StartPoints(activities_data, i + 1)
         IN  IF coords # <<>>
             THEN <<[index |-> i, lat |-> coords[1][1], lon |-> coords[1][2]]>> \o rest
             ELSE rest

\* an inner loop that forgets "if j in used_indices: continue"
CandidatesAll(n, used_indices) == 1..n

\* the start points the inner loop looks at
Candidates(n, used_indices) == (1..n) \ used_indices

\* a radius that leaves out the points exactly radius_km away
NearbyIndicesInside(start_points, i, used_indices, radius_km) ==
    { j \in Candidates(Len(start_points), used_indices) :
        HaversineDistance(start_points[i].lat, start_points[i].lon,
                          start_points[j].lat, start_points[j].lon) < radius_km }

\* nearby_indices of seed i, in increasing order
NearbyIndices(start_points, i, used_indices, radius_km) ==
    { j \in Candidates(Len(start_points), used_indices) :
        HaversineDistance(start_points[i].lat, start_points[i].lon,
                          start_points[j].lat, start_points[j].lon) <= radius_km }

RECURSIVE InOrder(_)
\* the members of a set of indices, smallest first
InOrder(S) ==
    IF S = {} THEN <<>>
    ELSE LET m == CHOOSE m \in S : \A k \in S : m <= k
         IN  <<m>> \o InOrder(S \ {m})

RECURSIVE SumOf(_, _)
SumOf(f, q) == IF q = <<>> THEN 0 ELSE f[Head(q)] + SumOf(f, Tail(q))

\* the cluster of the start points nearby; its members are the positions of
\* the activities in activities_data, the centre is a mean kept as a fraction
Cluster(start_points, nearby, radius_km) ==
    LET order == InOrder(nearby)
    IN  [center |-> [lat_sum |-> SumOf([j \in nearby |-> start_points[j].lat], order),
                     lon_sum |-> SumOf([j \in nearby |-> start_points[j].lon], order),
                     points |-> Len(order)],
         activities |-> [k \in 1..Len(order) |-> start_points[order[k]].index],
         count |-> Len(order),
         radius_km |-> radius_km]

\* a return that leaves the clusters in the order they were found
Unsorted(clusters) == clusters

RECURSIVE SortByCount(_)
\* clusters.sort(key=count, reverse=True): stable, equal counts keep their order
SortByCount(clusters) ==
    IF clusters = <<>> THEN <<>>
    ELSE LET c == Head(clusters)
             rest == SortByCount(Tail(clusters))
             before == { k \in 1..Len(rest) : rest[k].count > c.count }
         IN  SubSeq(rest, 1, Cardinality(before)) \o <<c>>
               \o SubSeq(rest, Cardinality(before) + 1, Len(rest))

\* a pass that marks nothing
MarkNone(used_indices, nearby) == used_indices

\* "Mark these indices as used"
MarkUsed(used_indices, nearby) == used_indices \cup nearby

\* a threshold that the count has to exceed
FormsClusterAbove(nearby, min_activities) == Cardinality(nearby) > min_activities

\* "if len(nearby_activities) >= min_activities"
FormsCluster(nearby, min_activities) == Cardinality(nearby) >= min_activities

RECURSIVE SeedLoop(_, _, _, _, _, _)
\* the outer loop from seed i on, with the clusters found so far
SeedLoop(start_points, i, used_indices, clusters, radius_km, min_activities) ==
    IF i > Len(start_points) THEN clusters
    ELSE IF i \in used_indices
    THEN SeedLoop(start_points, i + 1, used_indices, clusters, radius_km, min_activities)
    ELSE LET nearby == NearbyIndices(start_points, i, used_indices, radius_km)
         IN  IF FormsCluster(nearby, min_activities)
             THEN SeedLoop(start_points, i + 1, MarkUsed(used_indices, nearby),
                           Append(clusters, Cluster(start_points, nearby, radius_km)),
                           radius_km, min_activities)
             ELSE SeedLoop(start_points, i + 1, used_indices, clusters,
                           radius_km, min_activities)

\* find_areas_of_interest as one function of its arguments
FindAreasOfInterest(activities_data, radius_km, min_activities) ==
    IF activities_data = <<>> THEN <<>>
    ELSE SortByCount(SeedLoop(StartPoints(activities_data, 1), 1, {}, <<>>, radius_km,
                              MinActivitiesOf(min_activities, Len(activities_data))))

ClusterState(pc_, min_, points_, i_, used_, clusters_) ==
    [pc |-> pc_, min_activities |-> min_, start_points |-> points_, i |-> i_,
     used_indices |-> used_, clusters |-> clusters_]

InitCluster ==
    /\ cl_in \in [activities_data : ActivityLists, radius_km : Radii,
                  min_activities : MinActivities]
    /\ cl_out = ClusterState("call", 0, <<>>, 0, {}, <<>>)
    /\ AsmIdle /\ ConcIdle /\ GridIdle
    /\ SmoothIdle /\ RenderIdle /\ ZoomIdle

ClusterFrame ==
    UNCHANGED <<cl_in, asmVars, concVars, gridVars, smoothVars, renderVars, zoomVars>>

\* "if not activities_data: return []"
ReturnEmpty ==
    /\ cl_out.pc = "call"
    /\ cl_in.activities_data = <<>>
    /\ cl_out' = [cl_out EXCEPT !.pc = "done"]
    /\ ClusterFrame

\* the threshold and the start points
Extract ==
    /\ cl_out.pc = "call"
    /\ cl_in.activities_data # <<>>
    /\ cl_out' = ClusterState("seed",
                     MinActivitiesOf(cl_in.min_activities, Len(cl_in.activities_data)),
                     StartPoints(cl_in.activities_data, 1), 1, {}, <<>>)
    /\ ClusterFrame

\* "if i in used_indices: continue"
SkipUsed ==
    /\ cl_out.pc = "seed"
    /\ cl_out.i <= Len(cl_out.start_points)
    /\ cl_out.i \in cl_out.used_indices
    /\ cl_out' = [cl_out EXCEPT !.i = @ + 1]
    /\ ClusterFrame

\* one pass of the outer loop for a seed not yet used
SeedPass ==
    /\ cl_out.pc = "seed"
    /\ cl_out.i <= Len(cl_out.start_points)
    /\ cl_out.i \notin cl_out.used_indices
    /\ LET nearby == NearbyIndices(cl_out.start_points, cl_out.i, cl_out.used_indices,
                                   cl_in.radius_km)
       IN  IF FormsCluster(nearby, cl_out.min_activities)
           THEN cl_out' = [cl_out EXCEPT
                             !.i = @ + 1,
                             !.used_indices = MarkUsed(@, nearby),
                             !.clusters = Append(@, Cluster(cl_out.start_points, nearby,
                                                            cl_in.radius_km))]
           ELSE cl_out' = [cl_out EXCEPT !.i = @ + 1]
    /\ ClusterFrame

\* the sort and the return
ReturnClusters ==
    /\ cl_out.pc = "seed"
    /\ cl_out.i > Len(cl_out.start_points)
    /\ cl_out' = [cl_out EXCEPT !.pc = "done", !.clusters = SortByCount(@)]
    /\ ClusterFrame

NextCluster == ReturnEmpty \/ Extract \/ SkipUsed \/ SeedPass \/ ReturnClusters

SpecCluster == InitCluster /\ [][NextCluster]_vars

-----------------------------------------------------------------------------
(* Path smoothing (SpecSmooth): MapGenerator.smooth_path and PathSmoother.    *)
(* A trace is a sequence of points [lat, lng] in whole units; a mean is      *)
(* rounded down to the unit.                                                 *)

MaxPoints == 5

TracePoints == {[lat |-> 0, lng |-> 0], [lat |-> 12, lng |-> 6], [lat |-> 30, lng |-> 12]}
Traces == UNION { [1..n -> TracePoints] : n \in 0..MaxPoints }

RECURSIVE SumLat(_, _, _)
SumLat(q, lo, hi) == IF lo > hi THEN 0 ELSE q[lo].lat + SumLat(q, lo + 1, hi)
RECURSIVE SumLng(_, _, _)
SumLng(q, lo, hi) == IF lo > hi THEN 0 ELSE q[lo].lng + SumLng(q, lo + 1, hi)

\* np.mean(coords_array[start:end], axis=0), for the points lo..hi
MeanOf(q, lo, hi) ==
    [lat |-> SumLat(q, lo, hi) \div (hi - lo + 1),
     lng |-> SumLng(q, lo, hi) \div (hi - lo + 1)]

\* a moving average over the full windows only
MovingAverageValid(coordinates, window_size) ==
    IF Len(coordinates) < window_size THEN coordinates
    ELSE [i \in 1..(Len(coordinates) - window_size + 1) |->
            MeanOf(coordinates, i, i + window_size - 1)]

\* PathSmoother.moving_average
MovingAverage(coordinates, window_size) ==
    IF Len(coordinates) < window_size THEN coordinates
    ELSE [i \in 1..Len(coordinates) |->
            MeanOf(coordinates,
                   Maximum(1, i - (window_size \div 2)),
                   Minimum(Len(coordinates), i + (window_size \div 2)))]

\* the kernel of gaussian_filter1d for sigma = 0.8: exp(-d^2 / (2 sigma^2)) at
\* the offsets 0..3 (radius int(4 sigma + 0.5)), in thousandths
GaussianKernel == <<1000, 458, 44, 1>>
KernelRadius == Len(GaussianKernel) - 1
KernelSum == 1000 + 2 * (458 + 44 + 1)

\* the index read for position j of a signal of n samples (mode 'reflect')
Reflect(j, n) == IF j < 1 THEN 1 - j ELSE IF j > n THEN 2 * n + 1 - j ELSE j

RECURSIVE Convolve(_, _, _)
\* the weighted sum of signal f around position i, from offset d on
Convolve(f, i, d) ==
    IF d > KernelRadius THEN 0
    ELSE GaussianKernel[Abs(d) + 1] * f[Reflect(i + d, Len(f))] + Convolve(f, i, d + 1)

\* PathSmoother.gaussian_smooth, for the sigma of the kernel above
GaussianSmooth(coordinates) ==
    IF Len(coordinates) < 3 THEN coordinates
    ELSE LET lats == [i \in 1..Len(coordinates) |-> coordinates[i].lat]
             lngs == [i \in 1..Len(coordinates) |-> coordinates[i].lng]
         IN  [i \in 1..Len(coordinates) |->
                [lat |-> Convolve(lats, i, 0 - KernelRadius) \div KernelSum,
                 lng |-> Convolve(lngs, i, 0 - KernelRadius) \div KernelSum]]

\* the k-th of num_points samples of the interpolating spline (s = 0) through
\* n points: t = (k - 1) / (num_points - 1); a sample at a knot is the input
\* point, a sample between two knots is named by its place
SplineSample(coordinates, k, num_points) ==
    LET n == Len(coordinates)
        den == Maximum(1, num_points - 1)
        num == (k - 1) * (n - 1)
    IN  IF num % den = 0 THEN coordinates[(num \div den) + 1]
        ELSE [after |-> (num \div den) + 1, part |-> <<num % den, den>>]

\* UnivariateSpline raises for s < 0 and np.linspace for a negative count
FitRaises(smoothing_factor, num_points) ==
    \/ smoothing_factor # None /\ smoothing_factor.value < 0
    \/ num_points # None /\ num_points.value < 0

\* what a smoothing call hands back: a trace, or an exception
Returns(trace) == [raised |-> FALSE, trace |-> trace]
Raises == [raised |-> TRUE, trace |-> <<>>]

\* a fit whose exception leaves the function
SplineFitEscapes(coordinates) == Raises

\* "except: return coordinates"
SplineFallback(coordinates) == Returns(coordinates)

\* PathSmoother.spline_smooth
SplineSmooth(coordinates, smoothing_factor, num_points) ==
    IF Len(coordinates) < 4 THEN Returns(coordinates)
    ELSE IF FitRaises(smoothing_factor, num_points) THEN SplineFallback(coordinates)
    ELSE LET count == IF num_points = None THEN Len(coordinates) ELSE num_points.value
         IN  Returns([k \in 1..count |-> SplineSample(coordinates, k, count)])

\* SMOOTHING_PRESETS, for the presets modelled
SMOOTHING_PRESETS ==
    [none |-> [method |-> "None", kwargs |-> <<>>],
     light |-> [method |-> "gaussian", kwargs |-> <<>>],
     strava |-> [method |-> "spline",
                 kwargs |-> [smoothing_factor |-> [value |-> 0], num_points |-> None]]]

\* the calls of smooth_path: method and keyword arguments
SmoothingSpecs ==
    { [method |-> "moving_average", kwargs |-> [window_size |-> w]] : w \in {3, 5} }
    \cup { [method |-> "gaussian", kwargs |-> <<>>] }
    \cup { [method |-> "spline", kwargs |-> [smoothing_factor |-> f, num_points |-> c]]
             : f \in {None, [value |-> 0 - 1]}, c \in {None, [value |-> 2], [value |-> 7]} }
    \cup { [method |-> m, kwargs |-> <<>>] : m \in {"none", "light", "strava", "bezier"} }

\* "if method in self.SMOOTHING_PRESETS": the method and arguments used
Resolve(spec) ==
    IF spec.method \in DOMAIN SMOOTHING_PRESETS THEN SMOOTHING_PRESETS[spec.method] ELSE spec

NotSmoothed == [done |-> FALSE, raised |-> FALSE, trace |-> <<>>]
Smoothed(trace) == [done |-> TRUE, raised |-> FALSE, trace |-> trace]

InitSmooth ==
    /\ sm_in \in [coordinates : Traces, spec : SmoothingSpecs]
    /\ sm_out = NotSmoothed
    /\ AsmIdle /\ ConcIdle /\ GridIdle /\ ClusterIdle /\ RenderIdle /\ ZoomIdle

SmoothFrame ==
    UNCHANGED <<sm_in, asmVars, concVars, gridVars, clusterVars, renderVars, zoomVars>>

\* the preset 'none': "return self.coordinates"
SmoothNone ==
    /\ ~sm_out.done /\ Resolve(sm_in.spec).method = "None"
    /\ sm_out' = Smoothed(sm_in.coordinates)
    /\ SmoothFrame

SmoothMovingAverage ==
    /\ ~sm_out.done /\ Resolve(sm_in.spec).method = "moving_average"
    /\ sm_out' = Smoothed(MovingAverage(sm_in.coordinates,
                                        Resolve(sm_in.spec).kwargs.window_size))
    /\ SmoothFrame

SmoothGaussian ==
    /\ ~sm_out.done /\ Resolve(sm_in.spec).method = "gaussian"
    /\ sm_out' = Smoothed(GaussianSmooth(sm_in.coordinates))
    /\ SmoothFrame

SmoothSpline ==
    /\ ~sm_out.done /\ Resolve(sm_in.spec).method = "spline"
    /\ LET r == SplineSmooth(sm_in.coordinates, Resolve(sm_in.spec).kwargs.smoothing_factor,
                             Resolve(sm_in.spec).kwargs.num_points)
       IN  sm_out' = [done |-> TRUE, raised |-> r.raised, trace |-> r.trace]
    /\ SmoothFrame

\* "raise ValueError(f"Unknown smoothing method: {method}")"
SmoothUnknown ==
    /\ ~sm_out.done
    /\ Resolve(sm_in.spec).method \notin {"None", "moving_average", "gaussian", "spline"}
    /\ sm_out' = [done |-> TRUE, raised |-> TRUE, trace |-> <<>>]
    /\ SmoothFrame

NextSmooth ==
    SmoothNone \/ SmoothMovingAverage \/ SmoothGaussian \/ SmoothSpline \/ SmoothUnknown

SpecSmooth == InitSmooth /\ [][NextSmooth]_vars

-----------------------------------------------------------------------------
(* Rendering (SpecRender): MapGenerator.create_image and                      *)
(* create_multi_activity_image, called directly or through                   *)
(* generate_wrap_image or the command line (with --image), one step of the   *)
(* function per action.  The traces have a positive extent in latitude and   *)
(* in longitude; the figure size is not modelled.                            *)

\* MapGenerator.smooth_path as one function: Returns(trace) or Raises
SmoothPath(coordinates, spec) ==
    LET method == Resolve(spec).method
        kwargs == Resolve(spec).kwargs
    IN  IF method = "None" THEN Returns(coordinates)
        ELSE IF method = "moving_average"
        THEN Returns(MovingAverage(coordinates, kwargs.window_size))
        ELSE IF method = "gaussian" THEN Returns(GaussianSmooth(coordinates))
        ELSE IF method = "spline"
        THEN SplineSmooth(coordinates, kwargs.smoothing_factor, kwargs.num_points)
        ELSE Raises

MaxRendered == 2

\* a trace of five points, and one of two; they start 4 km apart
LongTrace ==
    <<[lat |-> 0, lng |-> 0], [lat |-> 12, lng |-> 6], [lat |-> 30, lng |-> 12],
      [lat |-> 12, lng |-> 18], [lat |-> 0, lng |-> 12]>>
ShortTrace == <<[lat |-> 4, lng |-> 0], [lat |-> 12, lng |-> 6]>>

\* an activity fetched without GPS data
NoGPS == <<>>

\* the smoothing argument: a preset name, or a dict of method and parameters
PresetNames == {"none", "light", "strava"}
SmoothingArgs ==
    { [is_dict |-> FALSE, method |-> m, kwargs |-> <<>>] : m \in PresetNames \cup {"bezier"} }
    \cup { [is_dict |-> TRUE, method |-> "spline",
            kwargs |-> [smoothing_factor |-> f, num_points |-> None]]
             : f \in {None, [value |-> 0 - 1]} }

Lists(S) == UNION { [1..n -> S] : n \in 0..MaxRendered }

\* the cluster index asked for: None, or an index
ClusterIds == {None} \cup { [value |-> k] : k \in (0 - 1)..2 }

RenderRequests ==
    [entry : {"create_image"}, traces : { <<t>> : t \in {<<>>, LongTrace, ShortTrace} },
     smoothing : SmoothingArgs, background : {"map", "photo", "solid"},
     force_square : BOOLEAN, add_border : BOOLEAN, title : {FALSE},
     cluster_id : {None}, min_cluster_size : {None}]
    \cup
    [entry : {"create_multi_activity_image"}, traces : Lists({LongTrace, ShortTrace}),
     smoothing : SmoothingArgs, background : {"map", "photo", "solid"},
     force_square : BOOLEAN, add_border : BOOLEAN, title : BOOLEAN,
     cluster_id : {None}, min_cluster_size : {None}]
    \cup
    [entry : {"generate_wrap_image", "cli"},
     traces : Lists({LongTrace, ShortTrace, NoGPS}),
     smoothing : { a \in SmoothingArgs : a.method \in {"none", "strava"} },
     background : {"map", "solid"},
     force_square : {FALSE}, add_border : BOOLEAN, title : {FALSE},
     cluster_id : ClusterIds, min_cluster_size : {[value |-> 1], [value |-> 2]}]

\* the radius of the clusters of a render
ClusterRadius == 3

\* the position of a render, what it has computed and what it has done
RenderStart ==
    [pc |-> "call", fn |-> "none", activities_data |-> <<>>, coords |-> <<>>,
     fit_failed |-> FALSE, basemap |-> "none", background |-> "none",
     use_mercator_y |-> FALSE, limits |-> "none", plotted |-> "none",
     markers |-> "none", file_written |-> FALSE, decorated |-> FALSE,
     overlaid |-> FALSE, decor_raised |-> FALSE,
     clusters |-> 0 - 1, selected |-> 0 - 1,
     error |-> "none", reported |-> FALSE, result |-> "none"]

InitRender ==
    /\ rd_in \in RenderRequests
    /\ rd_out = RenderStart
    /\ AsmIdle /\ ConcIdle /\ GridIdle /\ ClusterIdle /\ SmoothIdle /\ ZoomIdle

RenderFrame ==
    UNCHANGED <<rd_in, asmVars, concVars, gridVars, clusterVars, smoothVars, zoomVars>>

\* the call ends with an exception that reaches the caller
RenderRaises(message) ==
    rd_out' = [rd_out EXCEPT !.pc = "raised", !.error = message, !.reported = TRUE]

\* the command line prints a message and returns
CliGivesUp(message) ==
    rd_out' = [rd_out EXCEPT !.pc = "returned", !.error = message, !.reported = TRUE]

\* the activities with GPS data, numbered as fetched ('id')
RECURSIVE Dataset(_, _)
Dataset(traces, i) ==
    IF i > Len(traces) THEN <<>>
    ELSE IF traces[i] = NoGPS THEN Dataset(traces, i + 1)
    ELSE <<[id |-> i, coordinates |-> traces[i]]>> \o Dataset(traces, i + 1)

\* generate_wrap_image and the command line: fetch the activities and their
\* GPS data
Fetch ==
    /\ rd_out.pc = "call" /\ rd_out.fn = "none"
    /\ rd_in.entry \in {"generate_wrap_image", "cli"}
    /\ LET activities_data == Dataset(rd_in.traces, 1)
       IN  IF rd_in.traces = <<>>
           THEN IF rd_in.entry = "cli" THEN CliGivesUp("No activities found.")
                ELSE RenderRaises("No activities found for the selected criteria")
           ELSE IF activities_data = <<>>
           THEN IF rd_in.entry = "cli"
                THEN CliGivesUp("No activities with GPS data found")
                ELSE RenderRaises("No activities with GPS data available for visualization")
           ELSE rd_out' = [rd_out EXCEPT !.pc = "cluster",
                                         !.activities_data = activities_data]
    /\ RenderFrame

\* the activities as find_areas_of_interest reads them: the start points
StartsOf(activities_data) ==
    [k \in DOMAIN activities_data |->
        [coordinates |-> << <<activities_data[k].coordinates[1].lat,
                              activities_data[k].coordinates[1].lng>> >>]]

\* filter_by_cluster: the activities whose id is in the cluster; members are
\* the positions in activities_data of the activities that carry these ids
RECURSIVE FilterByCluster(_, _, _)
FilterByCluster(activities_data, members, k) ==
    IF k > Len(activities_data) THEN <<>>
    ELSE IF k \in members
    THEN <<activities_data[k]>> \o FilterByCluster(activities_data, members, k + 1)
    ELSE FilterByCluster(activities_data, members, k + 1)

\* the clusters of the activities of the render
ClustersOf(activities_data) ==
    FindAreasOfInterest(StartsOf(activities_data), ClusterRadius, rd_in.min_cluster_size)

\* generate_wrap_image: "min(max(request.cluster_id, 0), len(clusters) - 1)",
\* as a position from 1
WrapIndex(cluster_id, n) == Minimum(Maximum(cluster_id, 0), n - 1) + 1

\* clusters[args.cluster_id] of the command line, as a position from 1: a
\* negative index counts from the end of the list
CliIndex(cluster_id, n) == IF cluster_id < 0 THEN n + cluster_id + 1 ELSE cluster_id + 1

\* the render goes on with the members of the cluster at position k
UseCluster(clusters, k) ==
    rd_out' = [rd_out EXCEPT
                 !.pc = "call", !.fn = "create_multi_activity_image",
                 !.clusters = Len(clusters), !.selected = k,
                 !.activities_data =
                     FilterByCluster(@, { clusters[k].activities[c] :
                                            c \in DOMAIN clusters[k].activities }, 1)]

\* the render goes on with all the activities
UseAll(found) ==
    rd_out' = [rd_out EXCEPT !.pc = "call", !.fn = "create_multi_activity_image",
                             !.clusters = found]

\* "Optional clustering" of generate_wrap_image
SelectClusterWrap ==
    /\ rd_out.pc = "cluster" /\ rd_in.entry = "generate_wrap_image"
    /\ IF rd_in.cluster_id = None THEN UseAll(0 - 1)
       ELSE LET clusters == ClustersOf(rd_out.activities_data)
            IN  IF clusters # <<>>
                THEN UseCluster(clusters, WrapIndex(rd_in.cluster_id.value, Len(clusters)))
                ELSE UseAll(0)
    /\ RenderFrame

\* "Apply clustering if requested" of the command line
SelectClusterCli ==
    /\ rd_out.pc = "cluster" /\ rd_in.entry = "cli"
    /\ IF rd_in.cluster_id = None THEN UseAll(0 - 1)
       ELSE LET clusters == ClustersOf(rd_out.activities_data)
                n == Len(clusters)
                k == CliIndex(rd_in.cluster_id.value, n)
            IN  IF clusters = <<>>
                THEN CliGivesUp("No clusters found")
                ELSE IF rd_in.cluster_id.value >= n
                THEN CliGivesUp("Cluster doesn't exist")
                ELSE IF k < 1
                THEN RenderRaises("IndexError")
                ELSE UseCluster(clusters, k)
    /\ RenderFrame

\* the arguments of the MapGenerator function, for a direct call
DirectData(traces) == [k \in DOMAIN traces |-> [id |-> k, coordinates |-> traces[k]]]

\* a test that lets every list pass
NothingNever(list) == FALSE

\* "not self.coordinates", "not activities_data": the list is empty
Nothing(list) == list = <<>>

\* "if not self.coordinates: raise ValueError" of create_image and
\* "if not activities_data: raise ValueError" of create_multi_activity_image
Validate ==
    /\ rd_out.pc = "call"
    /\ \/ rd_out.fn = "create_multi_activity_image"
       \/ rd_out.fn = "none" /\ rd_in.entry \in {"create_image", "create_multi_activity_image"}
    /\ LET fn == IF rd_out.fn = "none" THEN rd_in.entry ELSE rd_out.fn
           data == IF rd_out.fn = "none" THEN DirectData(rd_in.traces)
                   ELSE rd_out.activities_data
       IN  IF fn = "create_image" /\ Nothing(data[1].coordinates)
           THEN RenderRaises("No coordinates to plot")
           ELSE IF fn = "create_multi_activity_image" /\ Nothing(data)
           THEN RenderRaises("No activities provided")
           ELSE rd_out' = [rd_out EXCEPT !.pc = "smooth", !.fn = fn,
                                         !.activities_data = data]
    /\ RenderFrame

\* some call of smooth_path raised
SmoothingRaised(results) == \E k \in DOMAIN results : results[k].raised

\* "Apply smoothing": create_image unpacks a dict, create_multi_activity_image
\* hands the argument on as the method, and a dict is no key of the presets
SmoothTraces ==
    /\ rd_out.pc = "smooth"
    /\ LET arg == rd_in.smoothing
           spec == [method |-> arg.method, kwargs |-> arg.kwargs]
           data == rd_out.activities_data
           results == [k \in DOMAIN data |-> SmoothPath(data[k].coordinates, spec)]
           failed == \E k \in DOMAIN data :
                        /\ Resolve(spec).method = "spline"
                        /\ Len(data[k].coordinates) >= 4
                        /\ FitRaises(Resolve(spec).kwargs.smoothing_factor,
                                     Resolve(spec).kwargs.num_points)
       IN  IF arg.is_dict /\ rd_out.fn = "create_multi_activity_image"
           THEN RenderRaises("TypeError")
           ELSE IF SmoothingRaised(results)
           THEN rd_out' = [rd_out EXCEPT !.pc = "raised", !.reported = TRUE,
                                         !.fit_failed = failed,
                                         !.error = "smooth_path raised"]
           ELSE rd_out' = [rd_out EXCEPT
                             !.pc = "background",
                             !.coords = [k \in DOMAIN data |-> results[k].trace],
                             !.fit_failed = failed]
    /\ RenderFrame

\* a basemap step whose exception leaves the render
BasemapEscapes ==
    rd_out' = [rd_out EXCEPT !.pc = "raised", !.basemap = "raised", !.reported = TRUE,
                             !.error = "No map tiles could be downloaded from any provider"]

\* "except Exception as e: ... Falling back to solid color"
BasemapFallback ==
    rd_out' = [rd_out EXCEPT !.pc = "plot", !.basemap = "raised", !.background = "solid"]

\* "Handle background (priority: map > photo > solid color)" when the map is
\* asked for: the basemap is assembled, or the step raises
MapBackground(outcome) ==
    /\ rd_out.pc = "background" /\ rd_in.background = "map"
    /\ IF outcome = "ok"
       THEN rd_out' = [rd_out EXCEPT !.pc = "plot", !.basemap = "ok", !.background = "map",
                                     !.use_mercator_y = TRUE, !.limits = "extent"]
       ELSE BasemapFallback
    /\ RenderFrame

\* the photo, when download_image returns one, or the solid colour
OtherBackground(downloaded) ==
    /\ rd_out.pc = "background" /\ rd_in.background # "map"
    /\ rd_out' = [rd_out EXCEPT
                    !.pc = "plot",
                    !.background = IF rd_in.background = "photo" /\ downloaded
                                   THEN "photo" ELSE "solid"]
    /\ RenderFrame

\* a plot that never converts the latitudes
PlotRaw ==
    /\ rd_out.pc = "plot"
    /\ rd_out' = [rd_out EXCEPT !.pc = "save", !.plotted = "lat", !.markers = "lat"]
    /\ RenderFrame

\* "Plot the route" and the markers: Mercator Y with a basemap, else latitude
Plot ==
    /\ rd_out.pc = "plot"
    /\ rd_out' = [rd_out EXCEPT
                    !.pc = "save",
                    !.plotted = IF rd_out.use_mercator_y THEN "mercator_y" ELSE "lat",
                    !.markers = IF rd_out.use_mercator_y THEN "mercator_y" ELSE "lat"]
    /\ RenderFrame

\* plt.savefig(output_file, ...)
Save ==
    /\ rd_out.pc = "save"
    /\ rd_out' = [rd_out EXCEPT !.pc = "decorate", !.file_written = TRUE]
    /\ RenderFrame

\* a decoration whose exception leaves the render
DecorationEscapes(o) ==
    [o EXCEPT !.decor_raised = TRUE, !.pc = "raised", !.result = "none",
              !.reported = TRUE, !.error = "decoration"]

\* "except Exception as e: print(...); return image_path" of add_border,
\* add_statistics_text and add_title_overlay: the render goes on
DecorationCaught(o) == [o EXCEPT !.decor_raised = TRUE]

\* "Add border if requested" with the statistics text, "Add title overlay if
\* provided" in create_multi_activity_image, then the return of the output
\* path; each of them works on the saved file, or fails inside
Decorate(border, overlay) ==
    /\ rd_out.pc = "decorate"
    /\ LET wants_overlay == rd_in.title /\ rd_out.fn = "create_multi_activity_image"
           done == [rd_out EXCEPT !.pc = "returned", !.result = "output_file",
                                  !.decorated = rd_in.add_border /\ border = "ok",
                                  !.overlaid = wants_overlay /\ overlay = "ok"]
       IN  /\ ~rd_in.add_border => border = "ok"
           /\ ~wants_overlay => overlay = "ok"
           /\ rd_out' = IF border = "fails" \/ overlay = "fails"
                        THEN DecorationCaught(done) ELSE done
    /\ RenderFrame

BasemapStep == \E outcome \in {"ok", "raises"} : MapBackground(outcome)
PlainStep == \E downloaded \in BOOLEAN : OtherBackground(downloaded)
DecorateStep == \E border, overlay \in {"ok", "fails"} : Decorate(border, overlay)

NextRender ==
    \/ Fetch \/ SelectClusterWrap \/ SelectClusterCli \/ Validate \/ SmoothTraces
    \/ BasemapStep \/ PlainStep \/ Plot \/ Save \/ DecorateStep

SpecRender == InitRender /\ [][NextRender]_vars

-----------------------------------------------------------------------------
(* Automatic zoom of two bounding boxes (SpecZoom)                         *)

\* how far from a threshold of the zoom table the spans are taken
MaxOffset == 1

\* "if max(lat_range, lon_range) > 1 ... > 0.5 ... > 0.1 ... > 0.05 ... > 0.02"
ZoomThresholds ==
    {DegUnit, DegUnit \div 2, DegUnit \div 10, DegUnit \div 20, DegUnit \div 50}

\* the spans of a padded box, in units of 1/DegUnit degree: at and around
\* every threshold, none and two degrees
Spans ==
    {0, 2 * DegUnit} \cup
    { t + d : t \in ZoomThresholds, d \in (0 - MaxOffset)..MaxOffset }

\* lat_range and lon_range of a padded box
Boxes == [lat_range : Spans, lon_range : ZoomThresholds \cup {0}]

\* the zoom table of the earlier module, src/map_generator.py
EstimateZoomLegacy(lat_range, lon_range) ==
    LET span == Maximum(lat_range, lon_range)
    IN  IF span > DegUnit THEN 10
        ELSE IF span > DegUnit \div 2 THEN 11
        ELSE IF span > DegUnit \div 10 THEN 12
        ELSE IF span > DegUnit \div 20 THEN 13
        ELSE 14

NotEstimated == [fn |-> "none", zooms |-> <<>>]

InitZoom ==
    /\ zm_in \in [first : Boxes, second : Boxes]
    /\ zm_out = NotEstimated
    /\ AsmIdle /\ ConcIdle /\ GridIdle /\ ClusterIdle /\ SmoothIdle /\ RenderIdle

ZoomFrame ==
    UNCHANGED <<zm_in, asmVars, concVars, gridVars, clusterVars, smoothVars, renderVars>>

\* create_minimal_map_background of src/src/lib/map_generator.py estimates
\* the zoom of both boxes
Estimate ==
    /\ zm_out = NotEstimated
    /\ zm_out' = [fn |-> "lib",
                  zooms |-> <<EstimateZoom(zm_in.first.lat_range, zm_in.first.lon_range),
                              EstimateZoom(zm_in.second.lat_range, zm_in.second.lon_range)>>]
    /\ ZoomFrame

\* create_minimal_map_background of src/map_generator.py does
EstimateLegacy ==
    /\ zm_out = NotEstimated
    /\ zm_out' = [fn |-> "legacy",
                  zooms |-> <<EstimateZoomLegacy(zm_in.first.lat_range, zm_in.first.lon_range),
                              EstimateZoomLegacy(zm_in.second.lat_range,
                                                 zm_in.second.lon_range)>>]
    /\ ZoomFrame

NextZoom == Estimate \/ EstimateLegacy

SpecZoom == InitZoom /\ [][NextZoom]_vars

-----------------------------------------------------------------------------
(* Properties of one assembly call (Spec) *)

\* tiles provider p yielded so far: cache hits and downloads
Yielded(p) == log[p].hits + log[p].downloads

\* the tiles placed on the canvas
PlacedTiles == IF map_img = None THEN {}
               ELSE { map_img.cells[c] : c \in DOMAIN map_img.cells } \ {None}

\* C1: providers are tried in list order, a later provider is queried only if
\* every earlier provider yielded zero tiles (cache hits and downloads) over the
\* whole grid, and all tiles placed on the canvas come from one provider.
C1_StickyProvider ==
    /\ \A i \in 1 .. Len(Providers) :
          log[Providers[i].name].queried =>
             \A j \in 1 .. (i - 1) :
                /\ Yielded(Providers[j].name) = 0
                /\ log[Providers[j].name].lookups = Cardinality(GridCells(grid))
    /\ \A t1, t2 \in PlacedTiles : t1.provider = t2.provider

\* the second provider placed tiles after the first yielded none
C1_Witness ==
    /\ pc = "returned"
    /\ use_mapbox
    /\ log[Mapbox].lookups = Cardinality(GridCells(grid))
    /\ \E t \in PlacedTiles : t.provider = Carto

\* tiles obtained from any provider
TilesObtained == Yielded(Mapbox) + Yielded(Carto)

DirectRaster(p, g) ==
    [tile_size |-> p.tile_size,
     cells |-> [c \in (0 .. g.max_tile_x - g.min_tile_x) \X (0 .. g.max_tile_y - g.min_tile_y)
                  |-> Tile(p.name, g.zoom, g.min_tile_x + c[1], g.min_tile_y + c[2])]]

\* the call started on an empty cache, every request to a provider before
\* Providers[i] failed and Providers[i] served every request
FallbackTo(i) ==
    /\ pc = "returned"
    /\ \A k \in Keys : cache0[k] = NoEntry
    /\ provider_used = Providers[i].name
    /\ \A j \in 1 .. (i - 1) : ~log[Providers[j].name].ok
    /\ ~log[Providers[i].name].failed

-----------------------------------------------------------------------------
(* Properties of the cache under failures and under concurrency *)

\* C4: put never propagates a failure to its caller, whatever step of storing
\* the tile fails (making the directory included), and the assembly goes on
\* with the downloaded tile placed once.
C4_PutNeverRaises ==
    \A p \in ProviderNames :
        /\ ~log[p].put_raised
        /\ log[p].downloads = Cardinality(log[p].placed)

\* C5: under any interleaving of get and put of two processes on one key, get
\* returns a complete raster or None and never raises.
C5_GetToleratesRaces ==
    \A i \in Procs : procs[i].ret \notin {"raised", "torn_image"}

-----------------------------------------------------------------------------
(* Properties of the tile grid (SpecGrid) *)

\* C8: every tile coordinate the assembly looks up or requests satisfies
\* 0 <= x < 2^zoom and 0 <= y < 2^zoom.
C8_TilesInRange ==
    bg.done =>
        /\ 0 <= bg.grid.min_tile_x /\ bg.grid.max_tile_x < 2^(bg.grid.zoom)
        /\ 0 <= bg.grid.min_tile_y /\ bg.grid.max_tile_y < 2^(bg.grid.zoom)

\* grid g holds every tile of grid h
Contains(g, h) ==
    /\ g.min_tile_x <= h.min_tile_x /\ h.max_tile_x <= g.max_tile_x
    /\ g.min_tile_y <= h.min_tile_y /\ h.max_tile_y <= g.max_tile_y

\* C9: the grid has at least one tile on each axis, for a zero-width or
\* zero-height box too; the expansion keeps the zoom and only adds tiles.
C9_GridGrowsOnly ==
    bg.done =>
        /\ bg.corner.max_tile_x >= bg.corner.min_tile_x
        /\ bg.corner.max_tile_y >= bg.corner.min_tile_y
        /\ bg.grid.max_tile_x >= bg.grid.min_tile_x
        /\ bg.grid.max_tile_y >= bg.grid.min_tile_y
        /\ bg.grid.zoom = bg.zoom /\ bg.corner.zoom = bg.zoom
        /\ Contains(bg.grid, bg.corner)

\* a zero-width, zero-height box whose grid was expanded
C9_Witness ==
    /\ bg.done
    /\ bg.bounds.min_lon = bg.bounds.max_lon
    /\ bg.bounds.min_lat = bg.bounds.max_lat
    /\ bg.grid # bg.corner

\* the geographic extent of the tiles of grid g, corner to corner
CornerToCorner(g) ==
    LET nw == TileToLatLon(g.min_tile_x, g.min_tile_y, g.zoom)
        se == TileToLatLon(g.max_tile_x + 1, g.max_tile_y + 1, g.zoom)
    IN  [min_lon |-> nw.lon, max_lon |-> se.lon, min_lat |-> se.lat, max_lat |-> nw.lat,
         merc_y_min |-> LatToMercatorY(nw.lat), merc_y_max |-> LatToMercatorY(se.lat)]

\* C7 as stated: the extent returned is the extent of the fetched tile grid,
\* whether the zoom was chosen automatically or given.
C7_ExtentIsTileExtent == bg.done => bg.extent = CornerToCorner(bg.grid)

\* the requested box (padded), with its Mercator Y bounds
RequestedBox(b) ==
    [min_lon |-> b.min_lon, max_lon |-> b.max_lon, min_lat |-> b.min_lat,
     max_lat |-> b.max_lat, merc_y_min |-> LatToMercatorY(b.max_lat),
     merc_y_max |-> LatToMercatorY(b.min_lat)]

\* C7 amended: with an automatic zoom the extent returned is the extent of the
\* fetched tile grid; with a given zoom it is the requested padded box the
\* raster was cropped to, and the tile grid's extent only when the crop box is
\* empty.
C7_ExtentAmended ==
    bg.done =>
        /\ req.custom_zoom = NoZoom => bg.extent = CornerToCorner(bg.grid)
        /\ (req.custom_zoom # NoZoom /\ bg.cropped) => bg.extent = RequestedBox(bg.bounds)
        /\ (req.custom_zoom # NoZoom /\ ~bg.cropped) => bg.extent = CornerToCorner(bg.grid)
        /\ bg.cropped =>
              /\ bg.bounds.min_lon < bg.bounds.max_lon
              /\ bg.bounds.min_lat < bg.bounds.max_lat

\* a call with a given zoom returned the requested box, not the tile extent
C7_Witness ==
    /\ bg.done
    /\ req.custom_zoom # NoZoom
    /\ bg.cropped
    /\ bg.extent # CornerToCorner(bg.grid)

-----------------------------------------------------------------------------
(* Properties of the areas of interest (SpecCluster) *)

\* the activities (positions of the input) that are members of cluster c
Members(c) == { c.activities[k] : k \in DOMAIN c.activities }

\* C10: in the result of one call no activity is a member of two clusters,
\* nor twice a member of one.
C10_NoDoubleAssignment ==
    cl_out.pc = "done" =>
        /\ \A a, b \in DOMAIN cl_out.clusters :
              a # b => Members(cl_out.clusters[a]) \cap Members(cl_out.clusters[b]) = {}
        /\ \A a \in DOMAIN cl_out.clusters :
              Cardinality(Members(cl_out.clusters[a])) = Len(cl_out.clusters[a].activities)

\* two clusters were returned and a member of one starts within the radius of
\* a member of the other
C10_Witness ==
    /\ cl_out.pc = "done"
    /\ \E a, b \in DOMAIN cl_out.clusters :
          /\ a # b
          /\ \E m \in Members(cl_out.clusters[a]), n \in Members(cl_out.clusters[b]) :
                HaversineDistance(cl_in.activities_data[m].coordinates[1][1], 0,
                                  cl_in.activities_data[n].coordinates[1][1], 0)
                  <= cl_in.radius_km

\* the member list of cluster c, as the list of activities it is
MemberList(c) == [k \in DOMAIN c.activities |-> cl_in.activities_data[c.activities[k]]]

\* the clusters of the member list of c, with the same radius and a minimum of 1
Reclustered(c) == FindAreasOfInterest(MemberList(c), cl_in.radius_km, [value |-> 1])

\* the latitude an activity starts at
StartLat(activity) == activity.coordinates[1][1]

\* every member of c starts within the radius of the first member of its list
FirstReachesAll(c) ==
    \A k \in DOMAIN c.activities :
        HaversineDistance(StartLat(MemberList(c)[1]), 0, StartLat(MemberList(c)[k]), 0)
          <= cl_in.radius_km

\* C11 as stated: the member list of every returned cluster, clustered again
\* with the same radius and a minimum of 1, gives exactly one cluster, which
\* holds every member.
C11_ReclusterIsOne ==
    cl_out.pc = "done" =>
        \A a \in DOMAIN cl_out.clusters :
            LET r == Reclustered(cl_out.clusters[a])
            IN  /\ Len(r) = 1
                /\ Members(r[1]) = DOMAIN cl_out.clusters[a].activities

\* C11 amended: clustered again, the member list gives one or more clusters
\* that hold every member exactly once; it gives exactly one cluster when
\* every member starts within the radius of the first member of the list.
C11_ReclusterCovers ==
    cl_out.pc = "done" =>
        \A a \in DOMAIN cl_out.clusters :
            LET c == cl_out.clusters[a]
                r == Reclustered(c)
            IN  /\ Len(r) >= 1
                /\ UNION { Members(r[k]) : k \in DOMAIN r } = DOMAIN c.activities
                /\ \A k, l \in DOMAIN r : k # l => Members(r[k]) \cap Members(r[l]) = {}
                /\ \A k \in DOMAIN r : Cardinality(Members(r[k])) = r[k].count
                /\ FirstReachesAll(c) <=> Len(r) = 1

\* a returned cluster whose first member is not its seed and whose member
\* list falls into two clusters
C11_Witness ==
    /\ cl_out.pc = "done"
    /\ \E a \in DOMAIN cl_out.clusters :
          /\ ~FirstReachesAll(cl_out.clusters[a])
          /\ Len(Reclustered(cl_out.clusters[a])) = 2

\* the start points within the radius of start point i
Group(i) ==
    { j \in DOMAIN cl_out.start_points :
        HaversineDistance(cl_out.start_points[i].lat, 0, cl_out.start_points[j].lat, 0)
          <= cl_in.radius_km }

\* the start points split into groups: within the radius inside a group,
\* farther apart across groups
WellSeparated ==
    \A i \in DOMAIN cl_out.start_points : \A j \in Group(i) : Group(j) = Group(i)

\* the activities (positions of the input) of a set of start points
ActivitiesOf(G) == { cl_out.start_points[j].index : j \in G }

\* the groups with at least min_activities start points
LargeGroups ==
    { Group(i) : i \in { k \in DOMAIN cl_out.start_points :
                            Cardinality(Group(k)) >= cl_out.min_activities } }

\* C12: when the start points split into well separated groups, the result
\* has exactly one cluster for each group of at least min_activities points,
\* holding all its activities, and no activity of a smaller group is in any
\* cluster.
C12_OneClusterPerGroup ==
    (cl_out.pc = "done" /\ WellSeparated) =>
        /\ Len(cl_out.clusters) = Cardinality(LargeGroups)
        /\ { Members(cl_out.clusters[a]) : a \in DOMAIN cl_out.clusters }
              = { ActivitiesOf(G) : G \in LargeGroups }
        /\ \A i \in DOMAIN cl_out.start_points :
              Cardinality(Group(i)) < cl_out.min_activities =>
                  \A a \in DOMAIN cl_out.clusters :
                      cl_out.start_points[i].index \notin Members(cl_out.clusters[a])

\* separated groups of which one gave a cluster of two or more and a smaller
\* one gave none
C12_Witness ==
    /\ cl_out.pc = "done"
    /\ WellSeparated
    /\ Len(cl_out.clusters) = 1
    /\ cl_out.clusters[1].count >= 2
    /\ \E i \in DOMAIN cl_out.start_points :
          cl_out.start_points[i].index \notin Members(cl_out.clusters[1])

\* the activities that are in some returned cluster
Clustered == UNION { Members(cl_out.clusters[a]) : a \in DOMAIN cl_out.clusters }

\* C13: the clusters are returned by non-increasing count, a cluster's count is
\* the length of its member list, and an activity that joined no cluster is in
\* no returned cluster; the call ends normally whatever was left out.
C13_SortedByCount ==
    cl_out.pc = "done" =>
        /\ \A a, b \in DOMAIN cl_out.clusters :
              a < b => cl_out.clusters[a].count >= cl_out.clusters[b].count
        /\ \A a \in DOMAIN cl_out.clusters :
              cl_out.clusters[a].count = Len(cl_out.clusters[a].activities)
        /\ Clustered = ActivitiesOf(cl_out.used_indices)
        /\ Clustered \subseteq DOMAIN cl_in.activities_data

\* the larger cluster was found after the smaller one, and an activity was
\* left out of both
C13_Witness ==
    /\ cl_out.pc = "done"
    /\ Len(cl_out.clusters) = 2
    /\ cl_out.clusters[1].count > cl_out.clusters[2].count
    /\ cl_out.clusters[1].activities[1] > cl_out.clusters[2].activities[1]
    /\ Clustered # DOMAIN cl_in.activities_data

\* C14: without a supplied minimum the threshold is max(2, floor(n / 3)) for
\* the n activities passed in, with or without coordinates; a supplied value
\* is the threshold as it is.
C14_DefaultThreshold ==
    cl_out.pc = "seed" =>
        LET n == Len(cl_in.activities_data)
        IN  /\ cl_in.min_activities = None =>
                  /\ cl_out.min_activities >= 2
                  /\ cl_out.min_activities * 3 <= Maximum(6, n)
                  /\ (cl_out.min_activities + 1) * 3 > n
            /\ cl_in.min_activities # None =>
                  cl_out.min_activities = cl_in.min_activities.value

\* nine activities, fewer of them with coordinates, and a threshold of three
C14_Witness ==
    /\ cl_out.pc = "seed"
    /\ cl_in.min_activities = None
    /\ Len(cl_in.activities_data) = 9
    /\ Len(cl_out.start_points) < 6
    /\ cl_out.min_activities = 3

-----------------------------------------------------------------------------
(* Properties of path smoothing (SpecSmooth) *)

\* the algorithm and arguments of the call, and the length asked of a spline
Algorithm == Resolve(sm_in.spec).method
Arguments == Resolve(sm_in.spec).kwargs
PointCount ==
    IF Arguments.num_points = None THEN Len(sm_in.coordinates)
    ELSE Arguments.num_points.value

\* the call returned its input
Unsmoothed == ~sm_out.raised /\ sm_out.trace = sm_in.coordinates

\* what C15 says of moving average and Gaussian
SameLengthOrIdentity(minimum) ==
    IF Len(sm_in.coordinates) >= minimum
    THEN ~sm_out.raised /\ Len(sm_out.trace) = Len(sm_in.coordinates)
    ELSE Unsmoothed

\* C15 as stated: the result has the length of the input for moving average
\* and Gaussian and the length asked for with spline, whenever the input has
\* the minimum of points of the algorithm (window, 3, 4); a shorter input is
\* returned unchanged.
C15_LengthContract ==
    sm_out.done =>
        /\ Algorithm = "moving_average" => SameLengthOrIdentity(Arguments.window_size)
        /\ Algorithm = "gaussian" => SameLengthOrIdentity(3)
        /\ Algorithm = "spline" =>
              IF Len(sm_in.coordinates) >= 4
              THEN ~sm_out.raised /\ Len(sm_out.trace) = PointCount
              ELSE Unsmoothed

\* the spline fit of the call cannot be made: a negative smoothing factor
FitFails ==
    /\ Arguments.smoothing_factor # None
    /\ Arguments.smoothing_factor.value < 0

\* C15 amended: as stated, but a spline has the length asked for only when the
\* fit succeeds; when the fit fails the input is returned unchanged.
C15_LengthUnlessFitFails ==
    sm_out.done =>
        /\ Algorithm = "moving_average" => SameLengthOrIdentity(Arguments.window_size)
        /\ Algorithm = "gaussian" => SameLengthOrIdentity(3)
        /\ Algorithm = "spline" =>
              IF Len(sm_in.coordinates) >= 4 /\ ~FitFails
              THEN ~sm_out.raised /\ Len(sm_out.trace) = PointCount
              ELSE Unsmoothed

\* a spline of seven points was asked of five, the fit failed and the five
\* came back
C15_Witness ==
    /\ sm_out.done
    /\ Algorithm = "spline"
    /\ Len(sm_in.coordinates) = 5
    /\ PointCount = 7
    /\ FitFails
    /\ Unsmoothed

-----------------------------------------------------------------------------
(* Properties of the tile loop of one assembly call (Spec) *)

\* the loop moves from one tile to another within one provider pass
TileStep == cur # End /\ cur' # End /\ cur' # cur /\ pidx' = pidx

\* C22 as stated: within one provider pass every tile of row y is processed
\* before any tile of row y+1, so the row of the tile processed never
\* decreases
C22_RowMajor == [][TileStep => cur'[2] >= cur[2]]_vars

\* C22 as the code has it: within one provider pass every tile of column x is
\* processed before any tile of column x+1, and the tiles of one column from
\* its first row to its last; the pass starts at the first tile of the grid
C22_ColumnMajor ==
    [][/\ TileStep =>
            \/ cur'[1] = cur[1] /\ cur'[2] = cur[2] + 1
            \/ /\ cur'[1] = cur[1] + 1
               /\ cur[2] = grid.max_tile_y /\ cur'[2] = grid.min_tile_y
       /\ cur = End /\ cur' # End => cur' = <<grid.min_tile_x, grid.min_tile_y>>]_vars

\* the pass has gone from the last row of one column to the first row of the
\* next
C22_Witness ==
    /\ pc = "tile" /\ cur # End
    /\ cur = <<grid.max_tile_x, grid.min_tile_y>>
    /\ grid.max_tile_x > grid.min_tile_x /\ grid.max_tile_y > grid.min_tile_y

\* the file of the tile the loop is at
CurPath == CachePath(Provider.name, grid.zoom, cur[1], cur[2])

\* a cache lookup returns a raster, or returns None
HitStep == pc = "tile" /\ lastGet' # lastGet /\ lastGet'.ret # None
MissStep == pc = "tile" /\ pc' = "download"

\* a request is sent and fails, or succeeds
FailedRequest == pc = "download" /\ sub' # sub /\ tiles_downloaded' = tiles_downloaded
GoodRequest == pc = "download" /\ tiles_downloaded' # tiles_downloaded

FoundDamaged == lastGet.entry.st \in DamagedKinds

\* C24: a corrupt cached entry of a needed tile is treated as a miss and the
\* tile is fetched again in the same call; the assembly neither fails nor
\* passes an error on because of the entry
C24_CorruptIsAMiss ==
    /\ FoundDamaged =>
          /\ lastGet.ret = None /\ ~lastGet.raised /\ lastGet.after = NoEntry
          /\ log[lastGet.path[1]].lookups > 0
    /\ pc = "raised" => error = "No map tiles could be downloaded from any provider"

-----------------------------------------------------------------------------
(* Properties of the seed passes (SpecCluster) *)

\* the outer loop passes the seed at position i of the start points
SeedStep ==
    /\ cl_out.pc = "seed" /\ cl_out'.pc = "seed" /\ cl_out'.i = cl_out.i + 1
    /\ cl_out.i \notin cl_out.used_indices

\* the start points not yet assigned within the radius of start point i
Reach(i) ==
    { j \in DOMAIN cl_out.start_points :
        /\ j \notin cl_out.used_indices
        /\ Abs(cl_out.start_points[i].lat - cl_out.start_points[j].lat) <= cl_in.radius_km }

\* the activities of a set of start points
Indexed(S) == { cl_out.start_points[j].index : j \in S }

\* C26: a seed forms a cluster exactly when the activities not yet assigned
\* within radius_km of it, itself included, are at least min_activities; the
\* members are exactly these and all become assigned; otherwise the pass
\* assigns nothing.  Every returned cluster has at least min_activities
\* members, all within radius_km of one of them, its seed.
C26_SeedPass ==
    /\ [][SeedStep =>
            IF Cardinality(Reach(cl_out.i)) >= cl_out.min_activities
            THEN /\ Len(cl_out'.clusters) = Len(cl_out.clusters) + 1
                 /\ SubSeq(cl_out'.clusters, 1, Len(cl_out.clusters)) = cl_out.clusters
                 /\ Members(cl_out'.clusters[Len(cl_out'.clusters)])
                      = Indexed(Reach(cl_out.i))
                 /\ cl_out'.used_indices = cl_out.used_indices \cup Reach(cl_out.i)
            ELSE /\ cl_out'.clusters = cl_out.clusters
                 /\ cl_out'.used_indices = cl_out.used_indices]_vars
    /\ [](cl_out.pc = "done" =>
            \A a \in DOMAIN cl_out.clusters :
               LET c == cl_out.clusters[a]
               IN  /\ c.count >= cl_out.min_activities
                   /\ c.count = Cardinality(Members(c))
                   /\ \E seed \in Members(c) : \A m \in Members(c) :
                         Abs(StartLat(cl_in.activities_data[seed])
                               - StartLat(cl_in.activities_data[m])) <= cl_in.radius_km)

\* a call in which one seed formed a cluster and another seed, left alone,
\* formed none
C26_Witness ==
    /\ cl_out.pc = "done" /\ cl_in.min_activities = [value |-> 2]
    /\ Len(cl_out.clusters) = 1
    /\ cl_out.used_indices # DOMAIN cl_out.start_points

\* how far apart two activities of the input start
Apart(m, n) ==
    Abs(StartLat(cl_in.activities_data[m]) - StartLat(cl_in.activities_data[n]))

\* C27 as stated: any two members of one returned cluster start within
\* radius_km of each other
C27_MutuallyWithinRadius ==
    cl_out.pc = "done" =>
        \A a \in DOMAIN cl_out.clusters :
            \A m, n \in Members(cl_out.clusters[a]) : Apart(m, n) <= cl_in.radius_km

\* C27 as the code has it: every member of a returned cluster starts within
\* radius_km of one member, the seed, so that any two members start within
\* twice radius_km of each other
C27_WithinRadiusOfSeed ==
    cl_out.pc = "done" =>
        \A a \in DOMAIN cl_out.clusters :
            /\ \E seed \in Members(cl_out.clusters[a]) :
                  \A m \in Members(cl_out.clusters[a]) : Apart(seed, m) <= cl_in.radius_km
            /\ \A m, n \in Members(cl_out.clusters[a]) : Apart(m, n) <= 2 * cl_in.radius_km

\* a returned cluster with two members further apart than the radius
C27_Witness ==
    /\ cl_out.pc = "done"
    /\ \E a \in DOMAIN cl_out.clusters :
          \E m, n \in Members(cl_out.clusters[a]) : Apart(m, n) > cl_in.radius_km

\* the returned clusters that activity k is a member of
ClustersWith(k) == { a \in DOMAIN cl_out.clusters : k \in Members(cl_out.clusters[a]) }

\* C29: with min_activities = 1 every activity that has at least one
\* coordinate is a member of exactly one returned cluster, and an activity
\* without coordinates of none
C29_MinimumOneCoversAll ==
    cl_out.pc = "done" /\ cl_in.min_activities = [value |-> 1] =>
        \A k \in DOMAIN cl_in.activities_data :
            IF cl_in.activities_data[k].coordinates # <<>>
            THEN Cardinality(ClustersWith(k)) = 1
            ELSE ClustersWith(k) = {}

\* a call with a minimum of 1 that returned a cluster of one activity beside
\* a larger one, for a list that holds an activity without coordinates
C29_Witness ==
    /\ cl_out.pc = "done" /\ cl_in.min_activities = [value |-> 1]
    /\ Len(cl_out.clusters) = 2
    /\ cl_out.clusters[1].count = 2 /\ cl_out.clusters[2].count = 1
    /\ \E k \in DOMAIN cl_in.activities_data : cl_in.activities_data[k].coordinates = <<>>

-----------------------------------------------------------------------------
(* Properties of the tile grid with an explicit zoom (SpecGrid) *)

\* the request on another canvas
OnCanvas(r, c) == [r EXCEPT !.width = c[1], !.height = c[2]]

\* C25: with an explicit zoom the aspect-ratio expansion is skipped: the tile
\* grid is the grid of the corner tiles of the padded box at that zoom, the
\* same on every canvas, and the stitched raster is cropped to the requested
\* box before it is resized
C25_ExplicitZoomSkipsExpansion ==
    bg.done /\ req.custom_zoom # NoZoom =>
        /\ bg.zoom = req.custom_zoom
        /\ bg.grid = AtLeastOneTile(CornerTiles(GetMapBounds(req.coordinates),
                                                req.custom_zoom))
        /\ \A c \in CanvasSizes : BasemapGeometry(OnCanvas(req, c)).grid = bg.grid
        /\ bg.cropped
        /\ bg.extent = WithMercator(bg.bounds)

\* the padded box is at least one pixel of the stitched raster wide, and high
PixelWide == (bg.bounds.max_lon - bg.bounds.min_lon) * req.tile_size >= TileSpan(bg.zoom)
PixelHigh ==
    (LatToMercatorY(bg.bounds.min_lat) - LatToMercatorY(bg.bounds.max_lat)) * req.tile_size
        >= MercSpan(bg.zoom)

\* the padded box has no width or no height
EmptyBox ==
    \/ bg.bounds.max_lon = bg.bounds.min_lon
    \/ bg.bounds.max_lat = bg.bounds.min_lat

\* C25 as the code has it: with an explicit zoom the expansion is skipped and
\* the grid is the same on every canvas; the stitched raster is cropped to the
\* requested box when the box is at least one raster pixel wide and high, and
\* is resized whole, with the extent of the tiles, when the box has no width
\* or no height
C25_CropsUnlessEmpty ==
    bg.done /\ req.custom_zoom # NoZoom =>
        /\ bg.zoom = req.custom_zoom
        /\ bg.grid = AtLeastOneTile(CornerTiles(GetMapBounds(req.coordinates),
                                                req.custom_zoom))
        /\ \A c \in CanvasSizes : BasemapGeometry(OnCanvas(req, c)).grid = bg.grid
        /\ PixelWide /\ PixelHigh =>
              bg.cropped /\ bg.extent = WithMercator(bg.bounds)
        /\ EmptyBox =>
              ~bg.cropped /\ bg.extent = WithMercator(TileExtent(bg.grid))

\* an explicit zoom on a canvas that, without it, makes the grid grow
C25_Witness ==
    /\ bg.done /\ req.custom_zoom = 12 /\ bg.cropped
    /\ ExpandToAspect(bg.corner, req.width, req.height) # bg.corner
    /\ bg.grid = bg.corner

-----------------------------------------------------------------------------
(* Properties of reads of one cache entry (SpecReads) *)

\* a get is made and returns a raster
ReadHit == lastGet' # lastGet /\ lastGet'.ret # None

\* C30: a get that returns a stored raster leaves the cache as it was, the
\* write time of the entry included, so that the entry is served up to 30
\* days after its last put and no longer, however often it was read
C30_ReadsLeaveCache ==
    /\ [][ReadHit => /\ cache' = cache
                     /\ lastGet'.ret = cache[ReadPath].img
                     /\ cache'[ReadPath].mtime = log.put_at
                     /\ now - log.put_at <= CACHE_EXPIRY_SECONDS]_vars
    /\ [](lastGet.ret # None => lastGet.after = lastGet.entry)
    /\ [](cache[ReadPath] # NoEntry => cache[ReadPath].mtime = log.put_at)
    /\ [](lastGet.entry # NoEntry /\ lastGet.at - lastGet.entry.mtime > CACHE_EXPIRY_SECONDS
            => lastGet.ret = None /\ lastGet.after = NoEntry)

\* an entry that was served when it was exactly 30 days old and, read again a
\* second later, has expired
C30_Witness ==
    /\ log.hits > 0
    /\ lastGet.ret = None /\ lastGet.entry # NoEntry
    /\ lastGet.entry.st = "valid"
    /\ lastGet.at - log.put_at = CACHE_EXPIRY_SECONDS + 1

-----------------------------------------------------------------------------
(* Properties of one render request (SpecRender) *)

\* the traces handed to the smoothing step
InputTraces == [k \in DOMAIN rd_out.activities_data |-> rd_out.activities_data[k].coordinates]

\* the render has ended, with a result or with an exception
RenderEnded == rd_out.pc \in {"returned", "raised"}

C17_BasemapFailureFallsBack ==
    rd_out.basemap = "raised" =>
        /\ rd_out.pc # "raised" /\ rd_out.error = "none"
        /\ rd_out.background = "solid" /\ ~rd_out.use_mercator_y
        /\ rd_out.pc \in {"decorate", "returned"} => rd_out.file_written
        /\ rd_out.pc = "returned" => rd_out.result = "output_file"

C17_Witness ==
    /\ rd_out.basemap = "raised" /\ rd_out.pc = "returned"
    /\ rd_out.fn = "create_multi_activity_image" /\ Len(rd_out.coords) = 2
    /\ rd_out.file_written /\ rd_out.background = "solid"

\* the request carries nothing to draw: an empty trace for create_image, no
\* activities for create_multi_activity_image, no activities or none with GPS
\* data for generate_wrap_image
NothingToDraw ==
    \/ rd_in.entry = "create_image" /\ rd_in.traces[1] = <<>>
    \/ rd_in.entry = "create_multi_activity_image" /\ rd_in.traces = <<>>
    \/ rd_in.entry = "generate_wrap_image" /\ Dataset(rd_in.traces, 1) = <<>>

\* C18: a render with an empty trace or with no activities raises an error to
\* the caller before anything is written to the output path
C18_EmptyInputRaises ==
    NothingToDraw =>
        /\ ~rd_out.file_written
        /\ rd_out.pc \in {"call", "raised"}
        /\ rd_out.pc = "raised" =>
              /\ rd_out.reported
              /\ rd_out.error \in {"No coordinates to plot", "No activities provided",
                                   "No activities found for the selected criteria",
                                   "No activities with GPS data available for visualization"}

C18_Witness ==
    /\ rd_in.entry = "create_image" /\ rd_in.traces[1] = <<>>
    /\ rd_out.pc = "raised" /\ rd_out.error = "No coordinates to plot"
    /\ ~rd_out.file_written

\* the clusters found among the activities of the request
ClustersFound == Len(ClustersOf(Dataset(rd_in.traces, 1)))

\* a cluster is selected by an index outside 0..(number of clusters - 1)
IndexOutOfRange ==
    /\ rd_in.entry \in {"generate_wrap_image", "cli"}
    /\ rd_in.cluster_id # None
    /\ Dataset(rd_in.traces, 1) # <<>>
    /\ \/ rd_in.cluster_id.value < 0
       \/ rd_in.cluster_id.value >= ClustersFound

\* C19: selecting a cluster by an index outside 0..(number of clusters - 1),
\* a negative index and any index when no cluster was found included, is
\* reported to the caller as an error and no image is written
C19_OutOfRangeIsAnError ==
    IndexOutOfRange =>
        /\ ~rd_out.file_written
        /\ RenderEnded => rd_out.reported /\ rd_out.error # "none"

\* C21: the trace and its markers are plotted with Mercator-Y latitudes, and
\* the axis limits are the extent the basemap assembly returned, exactly when
\* the basemap assembly succeeded; otherwise raw latitudes are plotted. The
\* request's force_square takes both values.
C21_MercatorIffBasemap ==
    rd_out.plotted # "none" =>
        IF rd_out.basemap = "ok"
        THEN /\ rd_out.plotted = "mercator_y" /\ rd_out.markers = "mercator_y"
             /\ rd_out.limits = "extent" /\ rd_out.background = "map"
        ELSE /\ rd_out.plotted = "lat" /\ rd_out.markers = "lat"
             /\ rd_out.limits # "extent" /\ rd_out.background # "map"

C21_Witness ==
    /\ rd_out.pc = "returned" /\ rd_out.basemap = "ok" /\ rd_in.force_square
    /\ rd_out.plotted = "mercator_y" /\ rd_out.limits = "extent"

\* C28 as stated: an exception raised while adding the border, the statistics
\* text or the title overlay aborts the render and reaches the caller; no
\* output path is returned
C28_DecorationAborts ==
    rd_out.decor_raised =>
        rd_out.pc = "raised" /\ rd_out.reported /\ rd_out.result # "output_file"

\* C28 as the code has it: such an exception is caught inside the step that
\* raised it; the render goes on and returns the output path of the file it
\* saved before, and nothing reaches the caller
C28_DecorationCaught ==
    rd_out.decor_raised =>
        /\ rd_out.pc = "returned" /\ rd_out.result = "output_file"
        /\ rd_out.error = "none" /\ ~rd_out.reported
        /\ rd_out.file_written
        /\ ~(rd_out.decorated /\ rd_out.overlaid)

\* a render with a title whose overlay failed after its border was added
C28_Witness ==
    /\ rd_out.decor_raised /\ rd_out.pc = "returned"
    /\ rd_in.add_border /\ rd_in.title /\ rd_out.decorated /\ ~rd_out.overlaid

-----------------------------------------------------------------------------
(* Properties of the automatic zoom (SpecZoom) *)

\* the larger side of a padded box
LargerSide(box) == Maximum(box.lat_range, box.lon_range)

\* C20: of two padded boxes, the one whose larger side is strictly larger
\* never gets a strictly higher zoom number than the other
C20_ZoomMonotonic ==
    zm_out # NotEstimated =>
        /\ LargerSide(zm_in.first) > LargerSide(zm_in.second)
              => zm_out.zooms[1] <= zm_out.zooms[2]
        /\ LargerSide(zm_in.first) < LargerSide(zm_in.second)
              => zm_out.zooms[1] >= zm_out.zooms[2]

C20_Witness ==
    /\ zm_out.fn = "lib"
    /\ LargerSide(zm_in.first) = LargerSide(zm_in.second) + 1
    /\ zm_out.zooms = <<13, 14>>

====
